---- MODULE Spec2Model ----
(***************************************************************************)
(* Model of the geometric inspection core of scanner-3D (src/logica.py):   *)
(* icp (rigid registration) and verificar_defeito (bidirectional           *)
(* comparison), driven by a caller that issues one call after another.     *)
(*                                                                         *)
(* Numbers.  numpy float64 values are modelled as exact extended           *)
(* rationals [n, d]: d > 0 is the rational n/d in lowest terms, d = 0 is   *)
(* +inf (n = 1), -inf (n = -1) or NaN (n = 0).  Rounding is not modelled.  *)
(* A point is a triple of such values, a cloud (an (N,3) array) a sequence *)
(* of points, a matrix a tuple of rows.                                    *)
(***************************************************************************)
EXTENDS Integers, Sequences, FiniteSets, TLC

VARIABLES
    pc,            \* position of the running call
    fn,            \* the entry point the caller invoked: "none", "icp", "verify"
    pontos_ref,    \* verificar_defeito: argument pontos_ref
    pontos_teste,  \* verificar_defeito: argument, rebound to the aligned cloud
    tol_mm,        \* verificar_defeito: argument tol_mm
    usar_icp,      \* verificar_defeito: argument usar_icp
    erro_icp,      \* verificar_defeito: local erro_icp
    resultado,     \* verificar_defeito: the returned dict (NoResult until built)
    origem,        \* icp: argument origem (never written by icp)
    alvo,          \* icp: argument alvo
    max_iter,      \* icp: argument max_iter after defaulting
    tol,           \* icp: argument tol after defaulting
    src,           \* icp: local src
    T_acum,        \* icp: local T_acum (4x4)
    erro_anterior, \* icp: local erro_anterior
    erro,          \* icp: local erro (Unbound until the first pass assigns it)
    i,             \* icp: number of loop passes started so far
    retorno,       \* icp: the returned triple (NoReturn until returned)
    raised,        \* the exception that ended the call ("none" if none)
    anterior,      \* caller: outcome of its previous icp call (NoPrev if none)
    obs,           \* observations of the run: counters and flags (not program state)
    heap,          \* arrays in memory: heap[k] is the content of array object k
    pontos,        \* gerar_pontos_simulados, _aplicar_defeito: local pontos, an index into heap
    args,          \* arguments of a generator or defect call
    saida,         \* what that call returned: an index into heap (0 until it returns)
    STL_DISPONIVEL, \* logica.py module flag: "unset" until the module is imported
    disco,         \* the files on disk: disco.xyz (lines of text), disco.stl (triangles)
    arq,           \* arguments and locals of the running file operation
    gravado,       \* the cloud the last salvar_xyz was given (not program state)
    SERIAL_DISPONIVEL, \* serial_comm.py module flag: "unset" until the module is imported
    tarefa,        \* the worker thread _tarefa: its position, arguments and locals
    fio,           \* the lines the device has still to send, in order
    recebidas,     \* the lines readline has returned so far (not program state)
    chamadas,      \* the callbacks the worker has invoked, in order
    var_modo,      \* interface.py: TRUE in simulated mode, FALSE in real mode
    var_referencia, \* the box "Salvar como Referência"
    var_previa_comparacao, \* the action of the real mode: "Pré-Visualização" or "Comparação"
    slider_tolerancia, \* the tolerance slider, in mm
    arquivo_stl_selecionado, \* the selected STL file: "" for None
    pontos_teste_ultimo, \* the last test cloud
    _ultimo_resultado, \* the dict of the last inspection
    leitores,      \* the worker threads ler_dados_async started, with what their callbacks closed over
    fila,          \* the callbacks handed to janela.after(0, ...), waiting for the main loop
    gestos,        \* how many times the user has worked a widget (not program state)
    comparado      \* what the last _cb_comparar was given, and the file and the slider as it ran (not program state)

vars == <<pc, fn, pontos_ref, pontos_teste, tol_mm, usar_icp, erro_icp, resultado,
          origem, alvo, max_iter, tol, src, T_acum, erro_anterior, erro, i,
          retorno, raised, anterior, obs,
          heap, pontos, args, saida,
          STL_DISPONIVEL, disco, arq, gravado,
          SERIAL_DISPONIVEL, tarefa, fio, recebidas, chamadas,
          var_modo, var_referencia, var_previa_comparacao, slider_tolerancia,
          arquivo_stl_selecionado, pontos_teste_ultimo, _ultimo_resultado, leitores, fila,
          gestos, comparado>>

verifyVars == <<pontos_ref, pontos_teste, tol_mm, usar_icp, erro_icp, resultado>>
icpVars == <<origem, alvo, max_iter, tol, src, T_acum, erro_anterior, erro, i, retorno>>
coreVars == <<verifyVars, icpVars, anterior, obs>>
genVars == <<heap, pontos, args, saida>>

fileVars == <<STL_DISPONIVEL, disco, arq, gravado>>
serialVars == <<SERIAL_DISPONIVEL, tarefa, fio, recebidas, chamadas>>
janelaVars == <<var_modo, var_referencia, var_previa_comparacao, slider_tolerancia,
                arquivo_stl_selecionado, pontos_teste_ultimo, _ultimo_resultado, leitores,
                fila, gestos, comparado>>
ioVars == <<fileVars, serialVars, janelaVars>>

\* the variables icp and verificar_defeito do not touch
extVars == <<genVars, ioVars>>

---------------------------------------------------------------------------
(* Bounds of the model *)

MaxCoord == 2
MaxPts == 2
MaxIterArg == 1
MaxTol == 2
MaxGen == 2
MaxDef == 2
MaxXyz == 2
MaxAmostras == 2
MaxTris == 2
MaxMalha == 1
MaxLinhas == 3

\* the acquisitions the window starts
MaxLeitores == 2

\* the widgets the user works in one session
MaxGestos == 3

---------------------------------------------------------------------------
(* float64 as exact extended rationals *)

Abs(x) == IF x < 0 THEN -x ELSE x

Sgn(x) == IF x > 0 THEN 1 ELSE IF x < 0 THEN -1 ELSE 0

RECURSIVE Gcd(_, _)
Gcd(a, b) == IF b = 0 THEN a ELSE Gcd(b, a % b)

Flt(n, d) ==
    IF d = 1 THEN [n |-> n, d |-> 1]
    ELSE IF d = 0 THEN [n |-> Sgn(n), d |-> 0]
    ELSE LET g == Gcd(Abs(n), Abs(d))
         IN  [n |-> (Sgn(d) * n) \div g, d |-> Abs(d) \div g]

F(k) == [n |-> k, d |-> 1]
Inf == [n |-> 1, d |-> 0]
NaN == [n |-> 0, d |-> 0]

IsNaN(a) == a.d = 0 /\ a.n = 0
IsFinite(a) == a.d > 0

FNeg(a) == [n |-> -a.n, d |-> a.d]

FAdd(a, b) ==
    IF a.d = 0 /\ b.d = 0
    THEN (IF a.n = b.n THEN a ELSE NaN)
    ELSE IF a.d = b.d THEN Flt(a.n + b.n, a.d)
    ELSE IF a.d = 1 \/ b.d = 1 THEN Flt(a.n * b.d + b.n * a.d, a.d * b.d)
    ELSE LET g == Gcd(a.d, b.d)
         IN  Flt(a.n * (b.d \div g) + b.n * (a.d \div g), (a.d \div g) * b.d)

FSub(a, b) == FAdd(a, FNeg(b))

FMul(a, b) == Flt(a.n * b.n, a.d * b.d)

FDiv(a, b) ==
    IF b.d = 0 THEN (IF b.n = 0 \/ a.d = 0 THEN NaN ELSE F(0))
    ELSE IF b.n = 0 THEN Flt(a.n, 0)
    ELSE Flt(a.n * b.d * Sgn(b.n), a.d * Abs(b.n))

FAbs(a) == [n |-> Abs(a.n), d |-> a.d]

FLt(a, b) ==
    /\ ~IsNaN(a)
    /\ ~IsNaN(b)
    /\ IF a.d = 0 \/ b.d = 0
       THEN (IF a.d = 0 /\ b.d = 0 THEN a.n < b.n
             ELSE IF a.d = 0 THEN a.n < 0 ELSE b.n > 0)
       ELSE a.n * b.d < b.n * a.d

FGt(a, b) == FLt(b, a)

FLe(a, b) == ~IsNaN(a) /\ ~IsNaN(b) /\ ~FLt(b, a)

ISqrt(n) == CHOOSE r \in 0..n : r * r = n

FSqrt(a) == IF a.d = 0 THEN a ELSE Flt(ISqrt(a.n), ISqrt(a.d))

RECURSIVE FSum(_)
FSum(s) == IF s = <<>> THEN F(0) ELSE FAdd(Head(s), FSum(Tail(s)))

\* np.mean of a 1-d array: the empty array gives 0/0 = nan
FMean(s) == FDiv(FSum(s), F(Len(s)))

\* the first element instead of the largest
FMax_Primeiro(s) == s[1]

RECURSIVE FMax(_)
FMax(s) == IF Len(s) = 1 THEN s[1]
           ELSE LET m == FMax(Tail(s)) IN IF FGt(s[1], m) THEN s[1] ELSE m

---------------------------------------------------------------------------
(* Vectors, matrices, clouds *)

\* an array given element by element, as a tuple
Arr(f) == f \o <<>>

VAdd(u, v) == <<FAdd(u[1], v[1]), FAdd(u[2], v[2]), FAdd(u[3], v[3])>>
VSub(u, v) == <<FSub(u[1], v[1]), FSub(u[2], v[2]), FSub(u[3], v[3])>>

\* M @ v for a 3x3 matrix and a 3-vector
MatVec(M, v) ==
    LET Row(r) == FAdd(FMul(M[r][1], v[1]), FAdd(FMul(M[r][2], v[2]), FMul(M[r][3], v[3])))
    IN  <<Row(1), Row(2), Row(3)>>

\* A @ B for 4x4 matrices given as tuples of rows
MatMul4(A, B) ==
    LET E(r, c) == FAdd(FAdd(FMul(A[r][1], B[1][c]), FMul(A[r][2], B[2][c])),
                        FAdd(FMul(A[r][3], B[3][c]), FMul(A[r][4], B[4][c])))
        Row(r) == <<E(r, 1), E(r, 2), E(r, 3), E(r, 4)>>
    IN  <<Row(1), Row(2), Row(3), Row(4)>>

\* np.eye(4)
Eye4 ==
    <<(<<F(1), F(0), F(0), F(0)>>), (<<F(0), F(1), F(0), F(0)>>),
      (<<F(0), F(0), F(1), F(0)>>), (<<F(0), F(0), F(0), F(1)>>)>>

\* np.linalg.det of a 3x3 matrix of integers
IDet3(M) ==
      M[1][1] * (M[2][2] * M[3][3] - M[2][3] * M[3][2])
    - M[1][2] * (M[2][1] * M[3][3] - M[2][3] * M[3][1])
    + M[1][3] * (M[2][1] * M[3][2] - M[2][2] * M[3][1])

IMatMul(A, B) ==
    LET E(r, c) == A[r][1] * B[1][c] + A[r][2] * B[2][c] + A[r][3] * B[3][c]
        Row(r) == <<E(r, 1), E(r, 2), E(r, 3)>>
    IN  <<Row(1), Row(2), Row(3)>>

ITranspose(M) ==
    <<(<<M[1][1], M[2][1], M[3][1]>>), (<<M[1][2], M[2][2], M[3][2]>>),
      (<<M[1][3], M[2][3], M[3][3]>>)>>

\* a 3x3 integer matrix as a float64 matrix
ToFloat(M) ==
    LET Row(r) == <<F(M[r][1]), F(M[r][2]), F(M[r][3])>>
    IN  <<Row(1), Row(2), Row(3)>>

\* arr.mean(axis=0) of an (N,3) array: the empty array gives [nan, nan, nan]
MeanAxis0(pts) ==
    LET Col(k) == FMean(Arr([j \in 1..Len(pts) |-> pts[j][k]]))
    IN  <<Col(1), Col(2), Col(3)>>

\* squared Euclidean distance of two points
Dist2(p, q) ==
    LET dv == VSub(p, q)
    IN  FAdd(FMul(dv[1], dv[1]), FAdd(FMul(dv[2], dv[2]), FMul(dv[3], dv[3])))

---------------------------------------------------------------------------
(* scipy.spatial.cKDTree: nearest-neighbour query *)

\* the smallest of a non-empty array of values
RECURSIVE FMin(_)
FMin(s) == IF Len(s) = 1 THEN s[1]
           ELSE LET m == FMin(Tail(s)) IN IF FLt(s[1], m) THEN s[1] ELSE m

\* the squared distances from point p to the points of data
Dists2(data, p) == Arr([k \in 1..Len(data) |-> Dist2(data[k], p)])

\* first result of cKDTree(data).query(pts): the distance of every point of pts
\* to its nearest neighbour in data; inf where the tree is empty
QueryDist(data, pts) ==
    Arr([j \in 1..Len(pts) |->
            IF Len(data) = 0 THEN Inf ELSE FSqrt(FMin(Dists2(data, pts[j])))])

\* second result of cKDTree(data).query(pts): every array of indices the query
\* may return.  Which of several equidistant neighbours is reported is not
\* specified; an empty tree reports the index n = len(data), one past the end.
QueryIdx(data, pts) ==
    IF Len(data) = 0
    THEN {[j \in 1..Len(pts) |-> Len(data) + 1]}
    ELSE LET nearest == Arr([j \in 1..Len(pts) |->
                                LET ds == Dists2(data, pts[j])
                                    m == FMin(ds)
                                IN  {k \in 1..Len(data) : ds[k] = m}])
         IN  {idx \in [1..Len(pts) -> 1..Len(data)] :
                \A j \in 1..Len(pts) : idx[j] \in nearest[j]}

---------------------------------------------------------------------------
(* np.linalg.svd of a 3x3 matrix *)

Perm3 == {p \in [1..3 -> 1..3] : \A a, b \in 1..3 : a # b => p[a] # p[b]}

Signs3 == [1..3 -> {-1, 1}]

\* the permutation matrices: column k is the axis p[k]
PermMat3 ==
    {Arr([r \in 1..3 |-> Arr([c \in 1..3 |-> IF p[c] = r THEN 1 ELSE 0])]) : p \in Perm3}

RECURSIVE LcmDen(_)
LcmDen(s) ==
    IF s = <<>> THEN 1
    ELSE LET l == LcmDen(Tail(s)) IN (Head(s).d * l) \div Gcd(Head(s).d, l)

\* A scaled by the positive common denominator of its entries: an integer matrix
\* with the same singular vectors
IntScale(A) ==
    LET l == LcmDen(A[1] \o A[2] \o A[3])
        E(r, c) == A[r][c].n * (l \div A[r][c].d)
        Row(r) == <<E(r, 1), E(r, 2), E(r, 3)>>
    IN  <<Row(1), Row(2), Row(3)>>

\* The (U, Vt) that np.linalg.svd(A) may return for a diagonal A:
\* A = U @ diag(S) @ Vt with S >= 0 in descending order.  No rotation is
\* needed to diagonalise A, so U and Vt.T are one permutation of the axes (the
\* sort of the singular values) with a sign per vector.  The order of equal
\* singular values and the signs of the vectors of zero singular values are
\* not determined by A, so the result is a set.  Flipping column k of U
\* together with row k of Vt gives another decomposition with the same
\* Vt.T @ U.T and the same Vt.T @ D @ U.T; of these the one with
\* non-negative U is listed.  (Written as U.T @ A = diag(S) @ Vt; S is scaled
\* with A.)
Svd(A) ==
    LET M == IntScale(A)
    IN  UNION {
          LET B == IMatMul(ITranspose(U), M)
              Sk(k) == Abs(B[k][1]) + Abs(B[k][2]) + Abs(B[k][3])
              S == <<Sk(1), Sk(2), Sk(3)>>
              \* row k of Vt: the axis of column k of U, with sign sg[k]
              VtRow(sg, k) == <<sg[k] * U[1][k], sg[k] * U[2][k], sg[k] * U[3][k]>>
              VtOf(sg) == <<VtRow(sg, 1), VtRow(sg, 2), VtRow(sg, 3)>>
          IN  IF S[1] >= S[2] /\ S[2] >= S[3]
              THEN {[U |-> U, Vt |-> VtOf(sg)] : sg \in
                      {tt \in Signs3 :
                         \A k, c \in 1..3 : B[k][c] = S[k] * tt[k] * U[c][k]}}
              ELSE {}
          : U \in PermMat3}

---------------------------------------------------------------------------
(* Program constants (src/config.py) *)

ICP_MAX_ITERACOES == 50
ICP_TOLERANCIA == Flt(1, 1000000)
TOLERANCIA_PADRAO == 3

---------------------------------------------------------------------------
(* Inputs of the calls *)

Pt(x, y, z) == <<F(x), F(y), F(z)>>

\* the empty cloud, also the value of a cloud variable that holds nothing yet
NoCloud == <<>>

\* clouds of up to MaxPts distinct points on the x axis, in ascending order,
\* the empty cloud included
LineClouds ==
    UNION {{Arr([j \in 1..n |-> Pt(f[j], 0, 0)]) :
              f \in {g \in [1..n -> 0..MaxCoord] : \A a, b \in 1..n : a < b => g[a] < g[b]}} :
           n \in 0..MaxPts}

\* the cloud X displaced by dx along the x axis
Shift(X, dx) == Arr([j \in 1..Len(X) |-> VAdd(X[j], Pt(dx, 0, 0))])

\* the cloud X without its k-th point
Remove(X, k) == SubSeq(X, 1, k - 1) \o SubSeq(X, k + 1, Len(X))

\* the points of X in the opposite order
Reverse(X) == Arr([j \in 1..Len(X) |-> X[Len(X) + 1 - j]])

\* the clouds compared with X: X itself, X displaced, X with a point removed,
\* X in another order, the empty cloud
Variants(X) ==
    {X, Reverse(X), NoCloud}
        \cup {Shift(X, dx) : dx \in 1..MaxCoord}
        \cup {Remove(X, k) : k \in 1..Len(X)}

\* the four corners of an a-by-b rectangle in the plane z = 0
Rect(a, b) == <<Pt(0, 0, 0), Pt(a, 0, 0), Pt(0, b, 0), Pt(a, b, 0)>>

RectClouds == {Rect(a, b) : a, b \in 1..MaxCoord}

\* (first cloud, second cloud) of a call: a cloud on the axis with one of its
\* variants, the empty cloud with a cloud on the axis, or a rectangle with
\* itself
CloudPairs ==
    UNION {{<<X, Y>> : Y \in Variants(X)} : X \in LineClouds}
        \cup {<<NoCloud, X>> : X \in LineClouds}
        \cup {<<X, X>> : X \in RectClouds}

Tolerances == {F(k) : k \in (-1)..MaxTol}

---------------------------------------------------------------------------
(* Values of variables that hold nothing yet *)

Unbound == [n |-> 0, d |-> -1]
NoMatrix == <<>>
NoReturn == [origem_alinhada |-> NoCloud, T |-> NoMatrix, erro |-> Unbound]
NoResult ==
    [n_defeitos |-> -1, pct_defeito |-> Unbound, dist_media |-> Unbound,
     dist_max |-> Unbound, cores_teste |-> <<>>, cores_ref |-> <<>>,
     dist_teste |-> <<>>, dist_ref |-> <<>>, erro_icp |-> Unbound,
     aprovada |-> FALSE]
NoObs ==
    [icp_calls |-> 0, trees |-> 0, queries |-> 0, transforms |-> 0,
     converged |-> FALSE, warned |-> FALSE]
NoPrev == [retorno |-> NoReturn, converged |-> FALSE]

\* an argument passed as None (left to its default)
NoneInt == -1
\* no file written yet
NoFile == [existe |-> FALSE, conteudo |-> <<>>]
NoDisk == [xyz |-> NoFile, stl |-> NoFile]

\* a numpy array with its number of dimensions; NoArray stands for None
NoArray == [ndim |-> 0, dados |-> <<>>]

\* what a callback of the window closed over when nothing was read for it
NoFecho == [pontos_ref |-> NoArray, tol_mm |-> Unbound, disco_exec |-> NoFile, slider_exec |-> 0]

NoComparado == [fecho |-> NoFecho, pts |-> NoArray, disco_fim |-> NoFile, slider_fim |-> 0]

\* no file operation running
NoArq == [pontos |-> NoArray, n_amostras |-> NoneInt, modelo |-> <<>>, idx |-> <<>>,
          tri |-> <<>>, tris |-> <<>>, triangulou |-> FALSE, previo |-> NoFile,
          saida |-> NoArray]

\* no worker started; porta "" stands for None
NoTarefa == [pc |-> "none", porta |-> "", callback_erro |-> FALSE, porta_alvo |-> "",
             pontos |-> <<>>, motivo |-> ""]

NoArgs == [forma |-> "", n_pontos |-> 0, raio |-> 0, altura |-> 0,
           defeito |-> FALSE, tipo_defeito |-> ""]
NoneFlt == Unbound

---------------------------------------------------------------------------
(* icp: the arithmetic of one loop pass (src/logica.py 205-235) *)

\* dst[idx]
Take(dst, idx) == Arr([j \in 1..Len(idx) |-> dst[idx[j]]])

\* A = (src - c_src).T @ (correspondentes - c_dst); an empty src gives zeros
CrossCov(s, corr) ==
    LET c_src == MeanAxis0(s)
        c_dst == MeanAxis0(corr)
        E(r, c) == FSum(Arr([j \in 1..Len(s) |->
                      FMul(FSub(s[j][r], c_src[r]), FSub(corr[j][c], c_dst[c]))]))
        Row(r) == <<E(r, 1), E(r, 2), E(r, 3)>>
    IN  <<Row(1), Row(2), Row(3)>>

\* np.linalg.det(Vt.T @ U.T)
DetVU(sv) == IDet3(IMatMul(ITranspose(sv.Vt), ITranspose(sv.U)))

\* the rotation without the guard against reflections: R = Vt.T @ U.T
Rotation_Unguarded(sv) == IMatMul(ITranspose(sv.Vt), ITranspose(sv.U))

\* D = diag(1, 1, det(Vt.T @ U.T));  R = Vt.T @ D @ U.T
Rotation(sv) ==
    LET D == <<(<<1, 0, 0>>), (<<0, 1, 0>>), (<<0, 0, DetVU(sv)>>)>>
    IN  IMatMul(IMatMul(ITranspose(sv.Vt), D), ITranspose(sv.U))

\* t = c_dst - R @ c_src
Translation(R, s, corr) == VSub(MeanAxis0(corr), MatVec(ToFloat(R), MeanAxis0(s)))

\* (R @ src.T).T + t
Apply(R, t, s) ==
    LET Rf == ToFloat(R)
    IN  Arr([j \in 1..Len(s) |-> VAdd(MatVec(Rf, s[j]), t)])

\* T = eye(4); T[:3,:3] = R; T[:3,3] = t
Homogeneous(R, t) ==
    LET Row(r) == <<F(R[r][1]), F(R[r][2]), F(R[r][3]), t[r]>>
    IN  <<Row(1), Row(2), Row(3), (<<F(0), F(0), F(0), F(1)>>)>>

\* an accumulation in the other order, T_acum @ T
Accumulate_Reversed(T, Tac) == MatMul4(Tac, T)

\* T_acum = T @ T_acum
Accumulate(T, Tac) == MatMul4(T, Tac)

\* abs(erro_anterior - erro) < tol
\* a test on the error itself instead of on its change
Converged_Absolute(prev, e, tl) == FLt(e, tl)

Converged(prev, e, tl) == FLt(FAbs(FSub(prev, e)), tl)

---------------------------------------------------------------------------
(* The caller *)

\* every variable but the disk, as the modules and the window are constructed
Construido ==
    /\ pc = "idle"
    /\ fn = "none"
    /\ pontos_ref = NoCloud
    /\ pontos_teste = NoCloud
    /\ tol_mm = Unbound
    /\ usar_icp = FALSE
    /\ erro_icp = Unbound
    /\ resultado = NoResult
    /\ origem = NoCloud
    /\ alvo = NoCloud
    /\ max_iter = NoneInt
    /\ tol = NoneFlt
    /\ src = NoCloud
    /\ T_acum = NoMatrix
    /\ erro_anterior = Unbound
    /\ erro = Unbound
    /\ i = 0
    /\ retorno = NoReturn
    /\ raised = "none"
    /\ anterior = NoPrev
    /\ obs = NoObs
    /\ heap = <<>>
    /\ pontos = 0
    /\ args = NoArgs
    /\ saida = 0
    /\ STL_DISPONIVEL = "unset"
    /\ arq = NoArq
    /\ gravado = NoCloud
    /\ SERIAL_DISPONIVEL = "unset"
    /\ tarefa = NoTarefa
    /\ fio = <<>>
    /\ recebidas = <<>>
    /\ chamadas = <<>>
    /\ var_modo = FALSE
    /\ var_referencia = FALSE
    /\ var_previa_comparacao = "Pré-Visualização"
    /\ slider_tolerancia = TOLERANCIA_PADRAO
    /\ arquivo_stl_selecionado = ""
    /\ pontos_teste_ultimo = NoArray
    /\ _ultimo_resultado = NoResult
    /\ leitores = <<>>
    /\ fila = <<>>
    /\ gestos = 0
    /\ comparado = NoComparado

Init == Construido /\ disco = NoDisk

\* the iteration limits a direct caller of icp passes: 0..MaxIterArg, or None
IterArgs == (0..MaxIterArg) \cup {NoneInt}

\* icp(o, a, max_iter=m): entry, arguments bound
EnterIcp(o, a, m, tl) ==
    /\ origem' = o
    /\ alvo' = a
    /\ max_iter' = m
    /\ tol' = tl
    /\ src' = NoCloud
    /\ T_acum' = NoMatrix
    /\ erro_anterior' = Unbound
    /\ erro' = Unbound
    /\ i' = 0
    /\ retorno' = NoReturn
    /\ pc' = "icp_init"

\* the caller invokes icp(origem, alvo, max_iter) directly
CallIcp ==
    /\ pc = "idle"
    /\ \E pr \in CloudPairs, m \in IterArgs : EnterIcp(pr[1], pr[2], m, NoneFlt)
    /\ fn' = "icp"
    /\ obs' = [NoObs EXCEPT !.icp_calls = 1]
    /\ UNCHANGED <<verifyVars, raised, anterior>>
    /\ UNCHANGED extVars

\* the caller of an icp call that logged the non-convergence warning keeps
\* what the call returned and aligns the same clouds again with the default
\* iteration limit
Repetir ==
    /\ pc = "returned"
    /\ fn = "icp"
    /\ obs.warned
    /\ anterior = NoPrev
    /\ anterior' = [retorno |-> retorno, converged |-> obs.converged]
    /\ EnterIcp(origem, alvo, NoneInt, NoneFlt)
    /\ obs' = [NoObs EXCEPT !.icp_calls = 1]
    /\ UNCHANGED <<fn, verifyVars, raised>>
    /\ UNCHANGED extVars

\* the caller invokes verificar_defeito(pontos_ref, pontos_teste, tol_mm, usar_icp)
CallVerify ==
    /\ pc = "idle"
    /\ \E pr \in CloudPairs, tm \in Tolerances, u \in BOOLEAN :
          /\ pontos_ref' = pr[1]
          /\ pontos_teste' = pr[2]
          /\ tol_mm' = tm
          /\ usar_icp' = u
    /\ fn' = "verify"
    /\ pc' = "v_validar"
    /\ UNCHANGED <<erro_icp, resultado, icpVars, raised, anterior, obs>>
    /\ UNCHANGED extVars

---------------------------------------------------------------------------
(* icp (src/logica.py 163-240) *)

\* lines 190-201: defaults, src = origem.copy(), T_acum = eye(4),
\* erro_anterior = inf, tree_dst = cKDTree(dst)
\* an entry that gives the residual a value before the loop
IcpInit_ErroInicial ==
    /\ pc = "icp_init"
    /\ max_iter' = IF max_iter = NoneInt THEN ICP_MAX_ITERACOES ELSE max_iter
    /\ tol' = IF tol = NoneFlt THEN ICP_TOLERANCIA ELSE tol
    /\ src' = origem
    /\ T_acum' = Eye4
    /\ erro_anterior' = Inf
    /\ erro' = Inf
    /\ i' = 0
    /\ obs' = [obs EXCEPT !.trees = @ + 1]
    /\ pc' = "icp_loop"
    /\ UNCHANGED <<fn, verifyVars, origem, alvo, retorno, raised, anterior>>
    /\ UNCHANGED extVars

IcpInit ==
    /\ pc = "icp_init"
    /\ max_iter' = IF max_iter = NoneInt THEN ICP_MAX_ITERACOES ELSE max_iter
    /\ tol' = IF tol = NoneFlt THEN ICP_TOLERANCIA ELSE tol
    /\ src' = origem
    /\ T_acum' = Eye4
    /\ erro_anterior' = Inf
    /\ i' = 0
    /\ obs' = [obs EXCEPT !.trees = @ + 1]
    /\ pc' = "icp_loop"
    /\ UNCHANGED <<fn, verifyVars, origem, alvo, erro, retorno, raised, anterior>>
    /\ UNCHANGED extVars

\* a loop that makes one pass more than max_iter
InRange_Inclusive(k, n) == k <= n

\* line 203: range(max_iter) still has a value for the pass after k passes
InRange(k, n) == k < n

\* lines 203-235: one pass of the for loop
IcpPass ==
    /\ pc = "icp_loop"
    /\ InRange(i, max_iter)
    /\ i' = i + 1
    /\ LET dist == QueryDist(alvo, src)
       IN  \E idx \in QueryIdx(alvo, src) :
             IF \E j \in 1..Len(idx) : idx[j] > Len(alvo)
             THEN \* line 206: dst[idx] with an index past the end
                  /\ raised' = "IndexError"
                  /\ pc' = "raised"
                  /\ obs' = [obs EXCEPT !.queries = @ + 1]
                  /\ UNCHANGED <<src, T_acum, erro_anterior, erro>>
             ELSE LET correspondentes == Take(alvo, idx)
                      e == FMean(dist)
                  IN  /\ erro' = e
                      /\ raised' = raised
                      /\ IF Converged(erro_anterior, e, tol)
                         THEN \* line 211-213: break
                              /\ pc' = "icp_return"
                              /\ obs' = [obs EXCEPT !.queries = @ + 1, !.converged = TRUE]
                              /\ UNCHANGED <<src, T_acum, erro_anterior>>
                         ELSE \* lines 214-235
                              /\ erro_anterior' = e
                              /\ \E R \in {Rotation(sv) :
                                               sv \in Svd(CrossCov(src, correspondentes))} :
                                   LET t == Translation(R, src, correspondentes)
                                   IN  /\ src' = Apply(R, t, src)
                                       /\ T_acum' = Accumulate(Homogeneous(R, t), T_acum)
                              /\ obs' = [obs EXCEPT !.queries = @ + 1,
                                                     !.transforms = @ + 1]
                              /\ pc' = "icp_loop"
    /\ UNCHANGED <<fn, verifyVars, origem, alvo, max_iter, tol, retorno, anterior>>
    /\ UNCHANGED extVars

\* lines 237-238: the loop ran out of passes without a break
IcpElse ==
    /\ pc = "icp_loop"
    /\ ~InRange(i, max_iter)
    /\ obs' = [obs EXCEPT !.warned = TRUE]
    /\ pc' = "icp_return"
    /\ UNCHANGED <<fn, verifyVars, icpVars, raised, anterior>>
    /\ UNCHANGED extVars

\* line 240: return src, T_acum, erro; to the caller or to line 296 of
\* verificar_defeito (pontos_teste, _, erro_icp = icp(...))
IcpReturn ==
    /\ pc = "icp_return"
    /\ IF erro = Unbound
       THEN /\ raised' = "UnboundLocalError"
            /\ pc' = "raised"
            /\ UNCHANGED <<retorno, pontos_teste, erro_icp>>
       ELSE /\ retorno' = [origem_alinhada |-> src, T |-> T_acum, erro |-> erro]
            /\ raised' = raised
            /\ IF fn = "verify"
               THEN /\ pontos_teste' = src
                    /\ erro_icp' = erro
                    /\ pc' = "v_comparar"
               ELSE /\ pc' = "returned"
                    /\ UNCHANGED <<pontos_teste, erro_icp>>
    /\ UNCHANGED <<fn, pontos_ref, tol_mm, usar_icp, resultado, origem, alvo, max_iter,
                   tol, src, T_acum, erro_anterior, erro, i, anterior, obs>>
    /\ UNCHANGED extVars

---------------------------------------------------------------------------
(* verificar_defeito (src/logica.py 247-340) *)

\* the count with the comparison turned round
CountAbove_Inverted(d, t) == Cardinality({j \in 1..Len(d) : FLt(d[j], t)})

\* int(np.sum(d > t))
CountAbove(d, t) == Cardinality({j \in 1..Len(d) : FGt(d[j], t)})

\* the labels with the comparison >= instead of >
Cores_Inclusive(d, t) == Arr([j \in 1..Len(d) |-> IF FLe(t, d[j]) THEN "red" ELSE "blue"])

\* ["red" if d > tol_mm else "blue" for d in dist]
Cores(d, t) == Arr([j \in 1..Len(d) |-> IF FGt(d[j], t) THEN "red" ELSE "blue"])

\* the count of the test-to-reference direction alone
NDefeitos_TestOnly(dist_teste, dist_ref, t) == CountAbove(dist_teste, t)

\* lines 307-309: n_def_teste + n_def_ref
NDefeitos(dist_teste, dist_ref, t) == CountAbove(dist_teste, t) + CountAbove(dist_ref, t)

\* the share of defects left as a fraction of one
PctDefeito_Fraction(n_defeitos, total_pontos) ==
    IF total_pontos > 0 THEN FDiv(F(n_defeitos), F(total_pontos)) ELSE F(0)

\* line 312: 100.0 * n_defeitos / total_pontos if total_pontos > 0 else 0.0
PctDefeito(n_defeitos, total_pontos) ==
    IF total_pontos > 0
    THEN FDiv(FMul(F(100), F(n_defeitos)), F(total_pontos))
    ELSE F(0)

\* lines 299-334: the dict built from the two clouds as they stand.
\* dist_std (a square root of a variance) is left out.
Comparar(ref, teste, t, eicp) ==
    LET dist_teste == QueryDist(ref, teste)
        dist_ref == QueryDist(teste, ref)
        n_defeitos == NDefeitos(dist_teste, dist_ref, t)
        total_pontos == Len(dist_teste) + Len(dist_ref)
        todas_dist == dist_teste \o dist_ref
    IN  [n_defeitos |-> n_defeitos,
         pct_defeito |-> PctDefeito(n_defeitos, total_pontos),
         dist_media |-> FMean(todas_dist),
         dist_max |-> FMax(todas_dist),
         cores_teste |-> Cores(dist_teste, t),
         cores_ref |-> Cores(dist_ref, t),
         dist_teste |-> dist_teste,
         dist_ref |-> dist_ref,
         erro_icp |-> eicp,
         aprovada |-> (n_defeitos = 0)]

\* the argument checks with the tolerance compared by < instead of <=
Invalid_ZeroTolerance(ref, teste, t) == Len(ref) = 0 \/ Len(teste) = 0 \/ FLt(t, F(0))

\* lines 284-289: argument checks
Invalid(ref, teste, t) == Len(ref) = 0 \/ Len(teste) = 0 \/ FLe(t, F(0))

\* lines 284-291
VerifyValidate ==
    /\ pc = "v_validar"
    /\ IF Invalid(pontos_ref, pontos_teste, tol_mm)
       THEN /\ raised' = "ValueError"
            /\ pc' = "raised"
            /\ UNCHANGED erro_icp
       ELSE /\ erro_icp' = F(0)
            /\ pc' = "v_alinhar"
            /\ UNCHANGED raised
    /\ UNCHANGED <<fn, pontos_ref, pontos_teste, tol_mm, usar_icp, resultado, icpVars,
                   anterior, obs>>
    /\ UNCHANGED extVars

\* the alignment entered with the two clouds in each other's place
VerifyAlign_Swapped ==
    /\ pc = "v_alinhar"
    /\ usar_icp
    /\ EnterIcp(pontos_ref, pontos_teste, NoneInt, NoneFlt)
    /\ obs' = [obs EXCEPT !.icp_calls = @ + 1]
    /\ UNCHANGED <<fn, verifyVars, raised, anterior>>
    /\ UNCHANGED extVars

\* lines 294-296 with usar_icp: icp(pontos_teste, pontos_ref) is entered
VerifyAlign ==
    /\ pc = "v_alinhar"
    /\ usar_icp
    /\ EnterIcp(pontos_teste, pontos_ref, NoneInt, NoneFlt)
    /\ obs' = [obs EXCEPT !.icp_calls = @ + 1]
    /\ UNCHANGED <<fn, verifyVars, raised, anterior>>
    /\ UNCHANGED extVars

\* line 294 without usar_icp: the alignment is skipped
VerifySkipAlign ==
    /\ pc = "v_alinhar"
    /\ ~usar_icp
    /\ pc' = "v_comparar"
    /\ UNCHANGED <<fn, verifyVars, icpVars, raised, anterior, obs>>
    /\ UNCHANGED extVars

\* lines 299-340
VerifyCompare ==
    /\ pc = "v_comparar"
    /\ resultado' = Comparar(pontos_ref, pontos_teste, tol_mm, erro_icp)
    /\ obs' = [obs EXCEPT !.trees = @ + 2, !.queries = @ + 2]
    /\ pc' = "returned"
    /\ UNCHANGED <<fn, pontos_ref, pontos_teste, tol_mm, usar_icp, erro_icp, icpVars,
                   raised, anterior>>
    /\ UNCHANGED extVars

---------------------------------------------------------------------------
(* Surface generation (src/logica.py 36-87, 124-156) *)

\* Config.N_PONTOS_SIMULACAO, scaled to the size of the model's clouds
N_PONTOS_SIMULACAO == MaxGen
RAIO_PADRAO == 10
ALTURA_PADRAO == 20

TIPOS_DEFEITOS == {"nenhum", "furo lateral", "furo superior", "amassado", "esticado",
                   "falta de tampa", "quebrado"}

FORMAS_BASE == {"cilindro", "esfera"}

\* points np.random can place on the cylinder: theta in {0, pi}, z in {0, altura/4}
AmostrasCilindro(raio, altura) ==
    {<<FMul(F(raio), F(c)), F(0), z>> : c \in {-1, 1}, z \in {F(0), FDiv(F(altura), F(4))}}

\* points the rejection sampling can place on the sphere, times raio
AmostrasEsfera(raio) ==
    {<<FMul(F(u[1]), F(raio)), FMul(F(u[2]), F(raio)), FMul(F(u[3]), F(raio))>> :
        u \in {<<1, 0, 0>>, <<-1, 0, 0>>, <<0, 1, 0>>, <<0, 0, 1>>}}

\* the arrays of n points over a set of sample points
Nuvens(n, amostras) == {Arr(f) : f \in [1..n -> amostras]}

\* lines 42-46: np.random.uniform(..., n_pontos) refuses a negative size
GerarCascaCilindro(n_pontos, raio, altura) ==
    IF n_pontos < 0
    THEN {[raised |-> "ValueError", nuvem |-> NoCloud]}
    ELSE {[raised |-> "none", nuvem |-> c] : c \in Nuvens(n_pontos, AmostrasCilindro(raio, altura))}

\* lines 56-64: the while loop is skipped when n_pontos <= 0 and pts stays empty
GerarCascaEsfera(n_pontos, raio) ==
    IF n_pontos <= 0
    THEN {[raised |-> "none", nuvem |-> NoCloud]}
    ELSE {[raised |-> "none", nuvem |-> c] : c \in Nuvens(n_pontos, AmostrasEsfera(raio))}

\* lines 85-87: every outcome of gerar_casca_3d
GerarCasca3d(forma, n_pontos, raio, altura) ==
    IF forma = "esfera"
    THEN GerarCascaEsfera(n_pontos, raio)
    ELSE GerarCascaCilindro(n_pontos, raio, altura)

---------------------------------------------------------------------------
(* Defects (src/logica.py 94-121) *)

\* pontos[keep]: boolean indexing builds a new array, pontos is rebound to it
Filtra(m, Keep(_)) ==
    [heap |-> Append(m.heap, SelectSeq(m.heap[m.pontos], Keep)),
     pontos |-> Len(m.heap) + 1]

\* the copy left out: pontos stays the caller's array
Copia_Alias(m) == m

\* pontos = pontos.copy()
Copia(m) == [heap |-> Append(m.heap, m.heap[m.pontos]), pontos |-> Len(m.heap) + 1]

\* pontos[:, 2] *= k, in place
EscalaZ(m, k) ==
    [m EXCEPT !.heap[m.pontos] =
        Arr([j \in 1..Len(@) |-> <<@[j][1], @[j][2], FMul(@[j][3], k)>>])]

\* np.abs(np.arctan2(y, x)) < 0.3, with tan(0.3) = 0.309336...
AnguloAbaixo(x, y) ==
    IF y = F(0) THEN FLe(F(0), x)
    ELSE IF FLe(x, F(0)) THEN FALSE
    ELSE LET q == FDiv(FAbs(y), x)
         IN  CHOOSE b \in BOOLEAN :
                /\ FLe(q, Flt(309336, 1000000)) => b
                /\ FLe(Flt(309337, 1000000), q) => ~b
                /\ FLe(q, Flt(309336, 1000000)) \/ FLe(Flt(309337, 1000000), q)

\* a copy of the array s in ascending order
RECURSIVE SortF(_)
SortF(s) ==
    IF Len(s) <= 1 THEN s
    ELSE LET rest == SortF(Tail(s))
             below == SelectSeq(rest, LAMBDA v : FLt(v, Head(s)))
             above == SelectSeq(rest, LAMBDA v : ~FLt(v, Head(s)))
         IN  below \o <<Head(s)>> \o above

\* np.median: the middle value, the mean of the two middle values, nan if empty
Median(s) ==
    LET o == SortF(s)
        n == Len(s)
    IN  IF n = 0 THEN NaN
        ELSE IF n % 2 = 1 THEN o[(n + 1) \div 2]
        ELSE FDiv(FAdd(o[n \div 2], o[n \div 2 + 1]), F(2))

\* no branch taken, and an empty array put in place of pontos
SemDefeito_Vazio(m) == Filtra(m, LAMBDA q : FALSE)

\* line 121 with no branch of the chain taken: pontos is returned as it came
SemDefeito(m) == m

\* lines 97-121: memory and the local pontos after the body of _aplicar_defeito
AplicarDefeito(m, tipo_defeito) ==
    LET cloud == m.heap[m.pontos]
    IN  CASE tipo_defeito = "furo lateral" ->
                LET mask(q) == /\ AnguloAbaixo(q[1], q[2])
                               /\ FGt(q[3], F(-3))
                               /\ FLt(q[3], F(3))
                    keep(q) == ~mask(q)
                IN  Filtra(m, keep)
          [] tipo_defeito = "furo superior" ->
                LET mask(q) == /\ FLt(FAdd(FMul(q[1], q[1]), FMul(q[2], q[2])), F(9))
                               /\ FGt(q[3], F(0))
                    keep(q) == ~mask(q)
                IN  Filtra(m, keep)
          [] tipo_defeito = "amassado" -> EscalaZ(Copia(m), Flt(1, 2))
          [] tipo_defeito = "esticado" -> EscalaZ(Copia(m), Flt(3, 2))
          [] tipo_defeito = "falta de tampa" ->
                LET z_med == Median(Arr([j \in 1..Len(cloud) |-> cloud[j][3]]))
                    keep(q) == FLt(q[3], z_med)
                IN  Filtra(m, keep)
          [] tipo_defeito = "quebrado" ->
                LET keep(q) == FGt(q[1], F(-2))
                IN  Filtra(m, keep)
          [] OTHER -> SemDefeito(m)

\* the points of the clouds _aplicar_defeito is called with directly
DefectPoints == {Pt(10, 0, 0), Pt(0, 0, 5), Pt(-10, 0, 10), Pt(1, 1, -4)}

DefectClouds == UNION {Nuvens(n, DefectPoints) : n \in 0..MaxDef}

\* the caller invokes gerar_casca_3d(forma, n_pontos, raio, altura)
CallGerarCasca ==
    /\ pc = "idle"
    /\ \E forma \in FORMAS_BASE, n \in (-1)..MaxGen, raio \in (-1)..1, altura \in {0, 4} :
          args' = [NoArgs EXCEPT !.forma = forma, !.n_pontos = n, !.raio = raio,
                                 !.altura = altura]
    /\ fn' = "gerar_casca_3d"
    /\ pc' = "g_corpo"
    /\ UNCHANGED <<coreVars, ioVars, raised, heap, pontos, saida>>

\* lines 85-87
GerarCasca ==
    /\ pc = "g_corpo"
    /\ \E r \in GerarCasca3d(args.forma, args.n_pontos, args.raio, args.altura) :
          IF r.raised # "none"
          THEN /\ raised' = r.raised
               /\ pc' = "raised"
               /\ UNCHANGED <<heap, saida>>
          ELSE /\ heap' = Append(heap, r.nuvem)
               /\ saida' = Len(heap) + 1
               /\ pc' = "returned"
               /\ UNCHANGED raised
    /\ UNCHANGED <<coreVars, ioVars, fn, pontos, args>>

\* the caller invokes _aplicar_defeito(pontos, tipo_defeito) on an array it holds
CallAplicarDefeito ==
    /\ pc = "idle"
    /\ \E c \in DefectClouds, tipo \in TIPOS_DEFEITOS :
          /\ heap' = <<c>>
          /\ args' = [NoArgs EXCEPT !.tipo_defeito = tipo]
    /\ pontos' = 1
    /\ fn' = "_aplicar_defeito"
    /\ pc' = "d_corpo"
    /\ UNCHANGED <<coreVars, ioVars, raised, saida>>

\* lines 97-121: the body, and return pontos
AplicarDefeitoCorpo ==
    /\ pc = "d_corpo"
    /\ LET m == AplicarDefeito([heap |-> heap, pontos |-> pontos], args.tipo_defeito)
       IN  /\ heap' = m.heap
           /\ pontos' = m.pontos
           /\ saida' = m.pontos
    /\ pc' = "returned"
    /\ UNCHANGED <<coreVars, ioVars, fn, raised, args>>

\* the caller invokes gerar_pontos_simulados(defeito, tipo_defeito, forma_base=forma)
CallGerarSimulados ==
    /\ pc = "idle"
    /\ \E d \in BOOLEAN, tipo \in TIPOS_DEFEITOS, forma \in FORMAS_BASE :
          args' = [NoArgs EXCEPT !.defeito = d, !.tipo_defeito = tipo, !.forma = forma,
                                 !.n_pontos = N_PONTOS_SIMULACAO, !.raio = RAIO_PADRAO,
                                 !.altura = ALTURA_PADRAO]
    /\ fn' = "gerar_pontos_simulados"
    /\ pc' = "s_gerar"
    /\ UNCHANGED <<coreVars, ioVars, raised, heap, pontos, saida>>

\* lines 145-150: pontos = gerar_casca_3d(...)
SimuladosGerar ==
    /\ pc = "s_gerar"
    /\ \E r \in GerarCasca3d(args.forma, args.n_pontos, args.raio, args.altura) :
          IF r.raised # "none"
          THEN /\ raised' = r.raised
               /\ pc' = "raised"
               /\ UNCHANGED <<heap, pontos>>
          ELSE /\ heap' = Append(heap, r.nuvem)
               /\ pontos' = Len(heap) + 1
               /\ pc' = "s_defeito"
               /\ UNCHANGED raised
    /\ UNCHANGED <<coreVars, ioVars, fn, args, saida>>

\* lines 152-156
SimuladosDefeito ==
    /\ pc = "s_defeito"
    /\ LET m == IF args.defeito /\ args.tipo_defeito # "nenhum"
                THEN AplicarDefeito([heap |-> heap, pontos |-> pontos], args.tipo_defeito)
                ELSE [heap |-> heap, pontos |-> pontos]
       IN  /\ heap' = m.heap
           /\ pontos' = m.pontos
           /\ saida' = m.pontos
    /\ pc' = "returned"
    /\ UNCHANGED <<coreVars, ioVars, fn, raised, args>>

---------------------------------------------------------------------------
(* Files: salvar_xyz, carregar_xyz, carregar_stl (src/logica.py 347-392) *)

N_PONTOS_STL_AMOSTRA == 8000

\* a file with the given content
Arquivo(conteudo) == [existe |-> TRUE, conteudo |-> conteudo]

\* an (N,3) array from a cloud
Matriz(nuvem) == [ndim |-> 2, dados |-> nuvem]

\* len() of an array (None has none: the callers test for None first)
Tamanho(a) == Len(a.dados)

\* "%.6f" of a finite value: the decimal text with six digits after the point,
\* held as the integer number of millionths it spells; the nearest one, a tie
\* going to the even digit (printf formats the exact value)
Formato6(x) ==
    LET num == x.n * 1000000
        q == num \div x.d
        r == num % x.d
    IN  IF 2 * r < x.d THEN q
        ELSE IF 2 * r > x.d THEN q + 1
        ELSE IF q % 2 = 0 THEN q ELSE q + 1

\* float() of a token written by "%.6f"
ParseFloat(t) == Flt(t, 1000000)

\* np.savetxt(arquivo, pontos, fmt="%.6f", delimiter=" "): one line per row
Savetxt(a) ==
    Arr([k \in 1..Len(a.dados) |->
            Arr([c \in 1..Len(a.dados[k]) |-> Formato6(a.dados[k][c])])])

\* np.loadtxt(arquivo) of well-formed lines: no line gives an empty 1-d array,
\* one line a 1-d array of its numbers, several lines a 2-d array
Loadtxt(linhas) ==
    LET linha(k) == Arr([c \in 1..Len(linhas[k]) |-> ParseFloat(linhas[k][c])])
    IN  IF Len(linhas) = 0 THEN [ndim |-> 1, dados |-> <<>>]
        ELSE IF Len(linhas) = 1 THEN [ndim |-> 1, dados |-> linha(1)]
        ELSE [ndim |-> 2, dados |-> Arr([k \in 1..Len(linhas) |-> linha(k)])]

\* the 1-d array returned as it was read
Reshape_Omitido(a) == a

\* lines 389-390: if pontos.ndim == 1: pontos = pontos.reshape(1, -1)
Reshape(a) == IF a.ndim = 1 THEN [ndim |-> 2, dados |-> <<a.dados>>] ELSE a

\* the points the callers save: finite coordinates, among them thirds and
\* sevenths (no six-digit decimal) and half a millionth (a tie)
XyzPoints ==
    {<<Flt(k, 3), Flt(k, 7), F(k)>> : k \in (-1)..MaxXyz}
       \cup {<<Flt(1, 2000000), Flt(-1, 2000000), Flt(7, 2)>>}

XyzClouds == UNION {Nuvens(n, XyzPoints) : n \in 0..MaxXyz}

\* from stl import mesh (lines 19-25): the flag is set once, at import
ImportarLogica ==
    /\ pc = "idle"
    /\ STL_DISPONIVEL = "unset"
    /\ STL_DISPONIVEL' \in {"True", "False"}
    /\ UNCHANGED <<janelaVars, coreVars, genVars, serialVars, pc, fn, raised, disco, arq, gravado>>

\* the caller invokes salvar_xyz(arquivo, pontos)
CallSalvarXyz ==
    /\ pc = "idle"
    /\ STL_DISPONIVEL # "unset"
    /\ \E c \in XyzClouds : arq' = [NoArq EXCEPT !.pontos = Matriz(c)]
    /\ fn' = "salvar_xyz"
    /\ pc' = "x_salvar"
    /\ raised' = "none"
    /\ UNCHANGED <<janelaVars, coreVars, genVars, serialVars, STL_DISPONIVEL, disco, gravado>>

\* lines 382-383: the file is written whole
SalvarXyz ==
    /\ pc = "x_salvar"
    /\ disco' = [disco EXCEPT !.xyz = Arquivo(Savetxt(arq.pontos))]
    /\ gravado' = arq.pontos.dados
    /\ pc' = "returned"
    /\ UNCHANGED <<janelaVars, coreVars, genVars, serialVars, fn, raised, STL_DISPONIVEL, arq>>

\* the caller invokes carregar_xyz(arquivo)
CallCarregarXyz ==
    /\ pc \in {"idle", "returned"}
    /\ STL_DISPONIVEL # "unset"
    /\ fn \in {"none", "salvar_xyz"}
    /\ arq' = NoArq
    /\ fn' = "carregar_xyz"
    /\ pc' = "x_loadtxt"
    /\ raised' = "none"
    /\ UNCHANGED <<janelaVars, coreVars, genVars, serialVars, STL_DISPONIVEL, disco, gravado>>

\* line 388: pontos = np.loadtxt(arquivo)
CarregarLoadtxt ==
    /\ pc = "x_loadtxt"
    /\ IF disco.xyz.existe
       THEN /\ arq' = [arq EXCEPT !.pontos = Loadtxt(disco.xyz.conteudo)]
            /\ pc' = "x_reshape"
            /\ UNCHANGED raised
       ELSE /\ raised' = "FileNotFoundError"
            /\ pc' = "raised"
            /\ UNCHANGED arq
    /\ UNCHANGED <<janelaVars, coreVars, genVars, serialVars, fn, STL_DISPONIVEL, disco, gravado>>

\* lines 389-392
CarregarReshape ==
    /\ pc = "x_reshape"
    /\ arq' = [arq EXCEPT !.pontos = Reshape(arq.pontos), !.saida = Reshape(arq.pontos)]
    /\ pc' = "returned"
    /\ UNCHANGED <<janelaVars, coreVars, genVars, serialVars, fn, raised, STL_DISPONIVEL, disco, gravado>>

\* the meshes the caller has files of: MaxMalha triangles at most, some sharing
\* vertices; modelo.v0, v1, v2 are the columns
Malhas ==
    UNION {Nuvens(t, {<<Pt(0, 0, 0), Pt(1, 0, 0), Pt(0, 1, 0)>>,
                      <<Pt(0, 0, 0), Pt(0, 1, 0), Pt(0, 0, 1)>>}) : t \in 0..MaxMalha}

\* np.concatenate([modelo.v0, modelo.v1, modelo.v2])
Vertices(modelo) ==
    Arr([k \in 1..(3 * Len(modelo)) |->
            modelo[((k - 1) % Len(modelo)) + 1][((k - 1) \div Len(modelo)) + 1]])

RECURSIVE Arranjos(_, _)
\* the sequences of n distinct members of S
Arranjos(S, n) ==
    IF n = 0 THEN {<<>>}
    ELSE UNION {{<<x>> \o r : r \in Arranjos(S \ {x}, n - 1)} : x \in S}

\* a draw with replacement
Choice_ComReposicao(v, n) == {Arr(f) : f \in [1..n -> 0..(v - 1)]}

\* np.random.choice(v, size=n, replace=False): n distinct indices of range(v)
Choice(v, n) == Arranjos(0..(v - 1), n)

\* pontos[idx]
Indexar(p, idx) == Arr([k \in 1..Len(idx) |-> p[idx[k] + 1]])

\* the caller invokes carregar_stl(arquivo, n_amostras)
CallCarregarStl ==
    /\ pc = "idle"
    /\ STL_DISPONIVEL # "unset"
    /\ \E mf \in Malhas, n \in (0..MaxAmostras) \cup {NoneInt} :
          arq' = [NoArq EXCEPT !.modelo = mf, !.n_amostras = n]
    /\ fn' = "carregar_stl"
    /\ pc' = "m_importado"
    /\ raised' = "none"
    /\ UNCHANGED <<janelaVars, coreVars, genVars, serialVars, STL_DISPONIVEL, disco, gravado>>

\* lines 362-369: the flag, the default count, the mesh read and its vertices
CarregarStlLer ==
    /\ pc = "m_importado"
    /\ IF STL_DISPONIVEL = "False"
       THEN /\ raised' = "ImportError"
            /\ pc' = "raised"
            /\ UNCHANGED arq
       ELSE /\ arq' = [arq EXCEPT
                         !.n_amostras = IF @ = NoneInt THEN N_PONTOS_STL_AMOSTRA ELSE @,
                         !.pontos = Matriz(Vertices(arq.modelo))]
            /\ pc' = "m_amostrar"
            /\ UNCHANGED raised
    /\ UNCHANGED <<janelaVars, coreVars, genVars, serialVars, fn, STL_DISPONIVEL, disco, gravado>>

\* n = min(n_amostras, len(pontos))
Min(a, b) == IF a < b THEN a ELSE b

\* lines 371-377
CarregarStlAmostrar ==
    /\ pc = "m_amostrar"
    /\ IF Tamanho(arq.pontos) = 0
       THEN /\ raised' = "ValueError"
            /\ pc' = "raised"
            /\ UNCHANGED arq
       ELSE /\ \E idx \in Choice(Tamanho(arq.pontos), Min(arq.n_amostras, Tamanho(arq.pontos))) :
                  arq' = [arq EXCEPT !.idx = idx,
                                     !.saida = Matriz(Indexar(arq.pontos.dados, idx))]
            /\ pc' = "returned"
            /\ UNCHANGED raised
    /\ UNCHANGED <<janelaVars, coreVars, genVars, serialVars, fn, STL_DISPONIVEL, disco, gravado>>

---------------------------------------------------------------------------
(* STL export: exportar_stl_convexo, exportar_stl_delaunay (src/logica.py 399-464) *)

\* the degenerate-area threshold of line 450
AREA_MINIMA == Flt(1, 1000000)

\* np.cross(v1, v2)
Cross(v1, v2) ==
    <<FSub(FMul(v1[2], v2[3]), FMul(v1[3], v2[2])),
      FSub(FMul(v1[3], v2[1]), FMul(v1[1], v2[3])),
      FSub(FMul(v1[1], v2[2]), FMul(v1[2], v2[1]))>>

\* np.linalg.norm of a 3-vector; along an axis it is the absolute value of the
\* one component that is not zero
Norm(v) ==
    LET nz == {c \in 1..3 : v[c] # F(0)}
    IN  IF nz = {} THEN F(0)
        ELSE IF Cardinality(nz) = 1 THEN FAbs(v[CHOOSE c \in nz : TRUE])
        ELSE FSqrt(FSum(<<FMul(v[1], v[1]), FMul(v[2], v[2]), FMul(v[3], v[3])>>))

\* lines 445-449: the area of triangle t (three indices) of the cloud p
Area(p, t) ==
    LET v1 == VSub(p[t[2] + 1], p[t[1] + 1])
        v2 == VSub(p[t[3] + 1], p[t[1] + 1])
    IN  FMul(Flt(1, 2), Norm(Cross(v1, v2)))

\* the test with the threshold itself let through
AreaValida_Inclusive(area) == FLe(AREA_MINIMA, area)

\* line 450: if area > 1e-6
AreaValida(area) == FGt(area, AREA_MINIMA)

\* four points accepted as enough with three
PoucosPontos_Tres(a) == a.ndim = 0 \/ Tamanho(a) < 3

\* lines 407 and 436: pontos is None or len(pontos) < 4
PoucosPontos(a) == a.ndim = 0 \/ Tamanho(a) < 4

\* a flat cloud with slivers along the y axis: with (0,0,0) and (1,0,0) the
\* points at 1, 2 and 3 millionths make triangles of area 0.5e-6, 1e-6, 1.5e-6
NuvemPlana ==
    <<Pt(0, 0, 0), Pt(1, 0, 0), <<F(0), Flt(1, 1000000), F(0)>>,
      <<F(0), Flt(2, 1000000), F(0)>>, <<F(0), Flt(3, 1000000), F(0)>>>>

\* a tilted rectangle: its triangles have area 5/2, their XY projections 3/2
NuvemInclinada == <<Pt(0, 0, 0), Pt(1, 0, 0), Pt(0, 3, 4), Pt(1, 3, 4)>>

\* what the callers export: None, the first k points of the rectangle, the
\* two clouds whole
ExportInputs ==
    {NoArray} \cup {Matriz(SubSeq(NuvemInclinada, 1, k)) : k \in 0..4} \cup {Matriz(NuvemPlana)}

\* the file that may already be at caminho
ArquivoPrevio == Arquivo(<<<<Pt(0, 0, 0), Pt(1, 0, 0), Pt(0, 1, 0)>>>>)

\* the triangles over n points, as ascending index triples
Triplas(n) ==
    {<<a, b, c>> : a \in 0..(n - 1), b \in 0..(n - 1), c \in 0..(n - 1)} \cap
    {t \in (0..(n - 1)) \X (0..(n - 1)) \X (0..(n - 1)) : t[1] < t[2] /\ t[2] < t[3]}

\* hull.simplices, tri.simplices: which triangles scipy returns is left open;
\* it returns at least one
Simplices(n) == UNION {Nuvens(k, Triplas(n)) : k \in 1..MaxTris}

\* lines 416-417, 460-461: malha.vectors[i] = [pontos[a], pontos[b], pontos[c]]
Vectors(p, tris) ==
    Arr([k \in 1..Len(tris) |-> <<p[tris[k][1] + 1], p[tris[k][2] + 1], p[tris[k][3] + 1]>>])

ExportFns == {"exportar_stl_convexo", "exportar_stl_delaunay"}

\* the caller invokes exportar_stl_convexo or exportar_stl_delaunay(pontos, caminho)
CallExportar ==
    /\ pc = "idle"
    /\ STL_DISPONIVEL # "unset"
    /\ \E f \in ExportFns, p \in ExportInputs, previo \in {NoFile, ArquivoPrevio} :
          /\ fn' = f
          /\ arq' = [NoArq EXCEPT !.pontos = p, !.previo = previo]
          /\ disco' = [disco EXCEPT !.stl = previo]
    /\ pc' = "e_checar"
    /\ raised' = "none"
    /\ UNCHANGED <<janelaVars, coreVars, genVars, serialVars, STL_DISPONIVEL, gravado>>

\* lines 405-408, 434-437
ExportarChecar ==
    /\ pc = "e_checar"
    /\ IF STL_DISPONIVEL = "False"
       THEN raised' = "ImportError" /\ pc' = "raised"
       ELSE IF PoucosPontos(arq.pontos)
       THEN raised' = "ValueError" /\ pc' = "raised"
       ELSE pc' = "e_triangular" /\ UNCHANGED raised
    /\ UNCHANGED <<janelaVars, coreVars, genVars, serialVars, fn, fileVars>>

\* lines 410-411, 440-441: ConvexHull(pontos), Delaunay(pontos[:, :2]); qhull
\* may refuse the input
ExportarTriangular ==
    /\ pc = "e_triangular"
    /\ \/ /\ raised' = "QhullError"
          /\ pc' = "raised"
          /\ arq' = [arq EXCEPT !.triangulou = TRUE]
       \/ /\ \E sx \in Simplices(Tamanho(arq.pontos)) :
                arq' = [arq EXCEPT !.triangulou = TRUE, !.tri = sx, !.tris = sx]
          /\ pc' = IF fn = "exportar_stl_convexo" THEN "e_salvar" ELSE "e_filtrar"
          /\ UNCHANGED raised
    /\ UNCHANGED <<janelaVars, coreVars, genVars, serialVars, fn, STL_DISPONIVEL, disco, gravado>>

\* lines 444-455: the degenerate triangles dropped
ExportarFiltrar ==
    /\ pc = "e_filtrar"
    /\ LET tris_validos == SelectSeq(arq.tris,
                                     LAMBDA t : AreaValida(Area(arq.pontos.dados, t)))
       IN  /\ arq' = [arq EXCEPT !.tris = tris_validos]
           /\ IF Len(tris_validos) = 0
              THEN raised' = "ValueError" /\ pc' = "raised"
              ELSE pc' = "e_salvar" /\ UNCHANGED raised
    /\ UNCHANGED <<janelaVars, coreVars, genVars, serialVars, fn, STL_DISPONIVEL, disco, gravado>>

\* lines 412-418, 457-463: the mesh built and saved
ExportarSalvar ==
    /\ pc = "e_salvar"
    /\ disco' = [disco EXCEPT !.stl = Arquivo(Vectors(arq.pontos.dados, arq.tris))]
    /\ pc' = "returned"
    /\ UNCHANGED <<janelaVars, coreVars, genVars, serialVars, fn, raised, STL_DISPONIVEL, arq, gravado>>

---------------------------------------------------------------------------
(* Serial acquisition: ler_dados_async and its worker (src/serial_comm.py) *)

DISTANCIA_SENSOR_MESA == Flt(2586, 25)

\* a line is the tuple of the fields the character "|" separates in it, after
\* decode and strip; a line without "|" is one field, the empty line <<"">>
LinhaVazia == <<"">>

\* the texts float() accepts, among the fields of the model
Numericos == {"0", "5", "10", "90"}

\* float(s) of a text it accepts
Float(s) ==
    CASE s = "0" -> F(0)
      [] s = "5" -> F(5)
      [] s = "10" -> F(10)
      [] s = "90" -> F(90)

\* str.upper() on the one-field lines of the model
Upper(s) == IF s = "fim" THEN "FIM" ELSE s

\* np.cos(np.radians(a)), np.sin(np.radians(a)) for whole multiples of 90 degrees
CosGraus(a) ==
    CASE a.n % 360 = 0 -> F(1)
      [] a.n % 360 = 180 -> F(-1)
      [] OTHER -> F(0)

SinGraus(a) ==
    CASE a.n % 360 = 90 -> F(1)
      [] a.n % 360 = 270 -> F(-1)
      [] OTHER -> F(0)

\* no point: the None of _processar_linha
NoPoint == <<>>

\* lines 94-100: polar to cartesian
Converter(partes) ==
    LET distancia == Float(partes[2])
        angulo_mesa == Float(partes[3])
        altura_fuso == Float(partes[4])
        raio == FSub(DISTANCIA_SENSOR_MESA, distancia)
    IN  <<FMul(raio, CosGraus(angulo_mesa)), FMul(raio, SinGraus(angulo_mesa)), altura_fuso>>

\* four fields or more let through
CamposValidos_AoMenos(partes) == Len(partes) >= 4

\* lines 82-87: a "|" in the line and exactly four fields
CamposValidos(partes) == Len(partes) = 4

\* lines 73-102: _processar_linha
ProcessarLinha(partes) ==
    IF ~CamposValidos(partes) THEN NoPoint
    ELSE IF \E k \in 2..4 : partes[k] \notin Numericos THEN NoPoint
    ELSE Converter(partes)

\* what the device may send in one line
Linhas ==
    {LinhaVazia, <<"FIM">>, <<"fim">>, <<"abc">>,
     <<"1", "10", "0", "5">>, <<"1", "10", "90", "0">>, <<"x", "5", "0", "5">>,
     <<"1", "abc", "0", "5">>, <<"1", "10", "0">>, <<"1", "10", "0", "5", "7">>}

\* the transmissions: MaxLinhas lines at most
Transmissoes == UNION {Nuvens(n, Linhas) : n \in 0..MaxLinhas}

\* import serial (lines 19-24): the flag is set once, at import
ImportarSerial ==
    /\ pc = "idle"
    /\ SERIAL_DISPONIVEL = "unset"
    /\ SERIAL_DISPONIVEL' \in {"True", "False"}
    /\ UNCHANGED <<janelaVars, coreVars, genVars, fileVars, pc, fn, raised, tarefa, fio, recebidas,
                   chamadas>>

\* lines 129-132, 174-176: the caller starts the worker and gets the thread back
CallLerDados ==
    /\ pc = "idle"
    /\ SERIAL_DISPONIVEL # "unset"
    /\ \E porta \in {"", "COM3"}, cb \in BOOLEAN :
          tarefa' = [NoTarefa EXCEPT !.pc = "inicio", !.porta = porta, !.callback_erro = cb]
    /\ fn' = "ler_dados_async"
    /\ pc' = "returned"
    /\ UNCHANGED <<janelaVars, coreVars, genVars, fileVars, raised, SERIAL_DISPONIVEL, fio, recebidas,
                   chamadas>>

\* lines 35-70: what detectar_porta_arduino may return; without pyserial None,
\* with it what the ports plugged in give
DetectarPorta == IF SERIAL_DISPONIVEL = "False" THEN {""} ELSE {"", "COM3"}

\* lines 141-142, 166-167: if callback_erro: callback_erro(msg)
AvisarErro(t, ch, motivo) ==
    IF t.callback_erro THEN Append(ch, [cb |-> "erro", arg |-> <<>>, motivo |-> motivo])
    ELSE ch

\* lines 135-143: the port chosen, or the worker ends for want of one
TarefaInicio ==
    /\ tarefa.pc = "inicio"
    /\ \E detectada \in DetectarPorta :
          LET porta_alvo == IF tarefa.porta # "" THEN tarefa.porta ELSE detectada
          IN  IF porta_alvo = ""
              THEN /\ chamadas' = AvisarErro(tarefa, chamadas, "porta")
                   /\ tarefa' = [tarefa EXCEPT !.pc = "fim", !.motivo = "porta"]
              ELSE /\ tarefa' = [tarefa EXCEPT !.pc = "abrir", !.porta_alvo = porta_alvo]
                   /\ UNCHANGED chamadas
    /\ UNCHANGED <<janelaVars, coreVars, genVars, fileVars, pc, fn, raised, SERIAL_DISPONIVEL, fio,
                   recebidas>>

\* lines 145-149: serial.Serial(...) opens the port and the device, reset by
\* the opening, starts its transmission; the name serial is not bound without
\* pyserial, and nothing catches the NameError
TarefaAbrir ==
    /\ tarefa.pc = "abrir"
    /\ IF SERIAL_DISPONIVEL = "False"
       THEN /\ tarefa' = [tarefa EXCEPT !.pc = "morta", !.motivo = "NameError"]
            /\ UNCHANGED <<chamadas, fio>>
       ELSE \/ /\ tarefa' = [tarefa EXCEPT !.pc = "lendo"]
               /\ fio' \in Transmissoes
               /\ UNCHANGED chamadas
            \/ /\ chamadas' = AvisarErro(tarefa, chamadas, "serial")
               /\ tarefa' = [tarefa EXCEPT !.pc = "fim", !.motivo = "serial"]
               /\ UNCHANGED fio
    /\ UNCHANGED <<janelaVars, coreVars, genVars, fileVars, pc, fn, raised, SERIAL_DISPONIVEL, recebidas>>

\* lines 152-161: one readline that returns a line, and what the loop does with it
TarefaLer ==
    /\ tarefa.pc = "lendo"
    /\ fio # <<>>
    /\ LET linha == Head(fio)
           ponto == ProcessarLinha(linha)
       IN  /\ fio' = Tail(fio)
           /\ recebidas' = Append(recebidas, linha)
           /\ tarefa' =
                 IF linha = LinhaVazia THEN tarefa
                 ELSE IF Len(linha) = 1 /\ Upper(linha[1]) = "FIM"
                 THEN [tarefa EXCEPT !.pc = "entregar", !.motivo = "FIM"]
                 ELSE IF ponto # NoPoint
                 THEN [tarefa EXCEPT !.pontos = Append(@, ponto)]
                 ELSE tarefa
    /\ UNCHANGED <<janelaVars, coreVars, genVars, fileVars, pc, fn, raised, SERIAL_DISPONIVEL, chamadas>>

\* lines 152, 163-168: readline raises SerialException
TarefaLerFalha ==
    /\ tarefa.pc = "lendo"
    /\ chamadas' = AvisarErro(tarefa, chamadas, "serial")
    /\ tarefa' = [tarefa EXCEPT !.pc = "fim", !.motivo = "serial"]
    /\ UNCHANGED <<janelaVars, coreVars, genVars, fileVars, pc, fn, raised, SERIAL_DISPONIVEL, fio,
                   recebidas>>

\* lines 170-172: callback_pontos(pts_arr)
TarefaEntregar ==
    /\ tarefa.pc = "entregar"
    /\ chamadas' = Append(chamadas, [cb |-> "pontos", arg |-> tarefa.pontos, motivo |-> "FIM"])
    /\ tarefa' = [tarefa EXCEPT !.pc = "fim"]
    /\ UNCHANGED <<janelaVars, coreVars, genVars, fileVars, pc, fn, raised, SERIAL_DISPONIVEL, fio,
                   recebidas>>

---------------------------------------------------------------------------
(* The application window (src/interface.py): its handlers run one at a    *)
(* time on the UI thread; the acquisitions it starts run on worker threads *)
(* and hand their result back through the event queue of the window.  The  *)
(* preview pane and the fields only it reads are left out.                 *)

\* the positions the tolerance slider is moved to (it runs from 1 to 30)
Tolerancias == {1, TOLERANCIA_PADRAO}

NuvemUm == <<Pt(0, 0, 0)>>
NuvemLinha == <<Pt(0, 0, 0), Pt(1, 0, 0), Pt(2, 0, 0), Pt(3, 0, 0)>>

\* what gerar_pontos_simulados returns to the window
NuvensGeradas == {Matriz(NuvemUm), Matriz(NuvemLinha)}

\* what an acquisition delivers: np.empty((0, 3)) when no record was read
Capturas == {Matriz(<<>>), Matriz(NuvemUm), Matriz(NuvemLinha)}

\* what carregar_stl returns for the selected file, None standing for an exception
CarregarStlSaidas == {NoArray, Matriz(NuvemLinha)}

\* what the file dialogs return: "" when cancelled
Caminhos == {"", "peca.stl"}

\* icp(origem, alvo) with the default limit and tolerance, from pass k + 1 on:
\* every (aligned source, residual) the call may return
RECURSIVE IcpFinais(_, _, _, _)
IcpFinais(s, dst, prev, k) ==
    LET e == FMean(QueryDist(dst, s))
        \* lines 206-228: the sources the pass may leave
        Transformadas(idx) ==
            LET correspondentes == Take(dst, idx)
            IN  {Apply(R, Translation(R, s, correspondentes), s) :
                    R \in {Rotation(sv) : sv \in Svd(CrossCov(s, correspondentes))}}
        Proximas == UNION {Transformadas(idx) : idx \in QueryIdx(dst, s)}
    IN  IF Converged(prev, e, ICP_TOLERANCIA)
        THEN {[origem_alinhada |-> s, erro |-> e]}
        ELSE IF InRange(k + 1, ICP_MAX_ITERACOES)
        THEN UNION {IcpFinais(s2, dst, e, k + 1) : s2 \in Proximas}
        ELSE {[origem_alinhada |-> s2, erro |-> e] : s2 \in Proximas}

\* verificar_defeito(ref, teste, t, usar_icp=True) for valid arguments: every
\* dict the call may return
VerificarDefeito(ref, teste, t) ==
    {Comparar(ref, f.origem_alinhada, t, f.erro) : f \in IcpFinais(teste, ref, Inf, 0)}

\* a save that refuses None alone
SemPontos_Nenhum(p) == p.ndim = 0

\* line 595: pontos is None or len(pontos) == 0
SemPontos(p) == p.ndim = 0 \/ Tamanho(p) = 0

\* _salvar_referencia(pontos)
SalvarReferencia(p) ==
    IF SemPontos(p)
    THEN UNCHANGED disco
    ELSE disco' = [disco EXCEPT !.xyz = Arquivo(Savetxt(p))]

\* _carregar_referencia(): None when the file does not exist
CarregarReferencia ==
    IF disco.xyz.existe THEN Reshape(Loadtxt(disco.xyz.conteudo)) ELSE NoArray

\* _comparar_e_exibir(pontos_ref, pontos_teste, tol_mm)
CompararExibir(ref, teste, t) ==
    IF Invalid(ref.dados, teste.dados, t)
    THEN UNCHANGED _ultimo_resultado
    ELSE _ultimo_resultado' \in VerificarDefeito(ref.dados, teste.dados, t)

\* serial_comm.ler_dados_async from the window: one more worker thread, with
\* what its callback closed over
IniciarLeitor(destino, fecho) ==
    leitores' = Append(leitores, [pc |-> "lendo", destino |-> destino, fecho |-> fecho,
                                  marcado |-> var_referencia])

\* what the handlers of the window leave alone
foraComparar == <<coreVars, genVars, serialVars, pc, fn, raised, STL_DISPONIVEL, arq, gravado>>

foraJanela == <<foraComparar, comparado>>

botoes == <<var_modo, var_referencia, var_previa_comparacao, slider_tolerancia,
            arquivo_stl_selecionado>>

\* the user works one widget more
Gesto == gestos < MaxGestos /\ gestos' = gestos + 1

\* _executar with "Salvar como Referência" checked
ExecutarReferencia ==
    /\ Gesto
    /\ var_referencia
    /\ IF arquivo_stl_selecionado # ""
       THEN /\ \E p \in CarregarStlSaidas : SalvarReferencia(p)
            /\ UNCHANGED leitores
       ELSE IF var_modo
       THEN /\ \E p \in NuvensGeradas : SalvarReferencia(p)
            /\ UNCHANGED leitores
       ELSE /\ Len(leitores) < MaxLeitores
            /\ IniciarLeitor("referencia", NoFecho)
            /\ UNCHANGED disco
    /\ UNCHANGED <<botoes, pontos_teste_ultimo, _ultimo_resultado, fila>>
    /\ UNCHANGED foraJanela

\* _executar, inspection of a simulated part
ExecutarSimulado ==
    /\ Gesto
    /\ ~var_referencia
    /\ var_modo
    /\ LET ref == CarregarReferencia
       IN  IF ref = NoArray
           THEN UNCHANGED <<pontos_teste_ultimo, _ultimo_resultado>>
           ELSE \E teste \in NuvensGeradas :
                   /\ pontos_teste_ultimo' = teste
                   /\ CompararExibir(ref, teste, F(slider_tolerancia))
    /\ UNCHANGED <<botoes, disco, leitores, fila>>
    /\ UNCHANGED foraJanela

\* _executar, inspection of a real part: the acquisition is started
ExecutarReal ==
    /\ Gesto
    /\ ~var_referencia
    /\ ~var_modo
    /\ Len(leitores) < MaxLeitores
    /\ IF var_previa_comparacao = "Pré-Visualização"
       THEN IniciarLeitor("previa", NoFecho)
       ELSE LET ref == CarregarReferencia
            IN  IF ref = NoArray
                THEN UNCHANGED leitores
                ELSE IniciarLeitor("comparar",
                                   [pontos_ref |-> ref, tol_mm |-> F(slider_tolerancia),
                                    disco_exec |-> disco.xyz,
                                    slider_exec |-> slider_tolerancia])
    /\ UNCHANGED <<botoes, pontos_teste_ultimo, _ultimo_resultado, disco, fila>>
    /\ UNCHANGED foraJanela

\* the worker reads FIM: callback_pontos(pts_arr), which is janela.after(0, ...),
\* is its last statement
LeitorFim ==
    /\ UNCHANGED gestos
    /\ \E k \in 1..Len(leitores) :
          /\ leitores[k].pc = "lendo"
          /\ \E pts \in Capturas :
                fila' = Append(fila, [cb |-> leitores[k].destino, pts |-> pts,
                                      fecho |-> leitores[k].fecho, leitor |-> k])
          /\ leitores' = [leitores EXCEPT ![k].pc = "fim", ![k].fecho = NoFecho]
    /\ UNCHANGED <<botoes, pontos_teste_ultimo, _ultimo_resultado, disco>>
    /\ UNCHANGED foraJanela

\* the worker finds no port or the port fails: callback_erro(msg)
LeitorFalha ==
    /\ UNCHANGED gestos
    /\ \E k \in 1..Len(leitores) :
          /\ leitores[k].pc = "lendo"
          /\ fila' = Append(fila, [cb |-> "erro", pts |-> NoArray, fecho |-> NoFecho,
                                   leitor |-> k])
          /\ leitores' = [leitores EXCEPT ![k].pc = "erro", ![k].fecho = NoFecho]
    /\ UNCHANGED <<botoes, pontos_teste_ultimo, _ultimo_resultado, disco>>
    /\ UNCHANGED foraJanela

\* _cb_previa_real(pts), run by the main loop
CbPreviaReal ==
    /\ UNCHANGED gestos
    /\ fila # <<>>
    /\ Head(fila).cb = "previa"
    /\ pontos_teste_ultimo' = Head(fila).pts
    /\ fila' = Tail(fila)
    /\ UNCHANGED <<botoes, _ultimo_resultado, disco, leitores>>
    /\ UNCHANGED foraJanela

\* a comparison that reads the reference and the slider when the cloud arrives
ArgsComparacao_Tardios(fecho) == <<CarregarReferencia, F(slider_tolerancia)>>

\* lines 560-562: pontos_ref and tol_mm as the lambda closed over them
ArgsComparacao(fecho) == <<fecho.pontos_ref, fecho.tol_mm>>

\* _cb_comparar(pts, pontos_ref, tol_mm), run by the main loop
CbComparar ==
    /\ UNCHANGED gestos
    /\ fila # <<>>
    /\ Head(fila).cb = "comparar"
    /\ pontos_teste_ultimo' = Head(fila).pts
    /\ LET a == ArgsComparacao(Head(fila).fecho)
       IN  CompararExibir(a[1], Head(fila).pts, a[2])
    /\ fila' = Tail(fila)
    /\ UNCHANGED <<botoes, disco, leitores>>
    /\ comparado' = [fecho |-> Head(fila).fecho, pts |-> Head(fila).pts,
                     disco_fim |-> disco.xyz, slider_fim |-> slider_tolerancia]
    /\ UNCHANGED foraComparar

\* _salvar_referencia(pts, "real"), run by the main loop
CbSalvarReferencia ==
    /\ UNCHANGED gestos
    /\ fila # <<>>
    /\ Head(fila).cb = "referencia"
    /\ SalvarReferencia(Head(fila).pts)
    /\ fila' = Tail(fila)
    /\ UNCHANGED <<botoes, pontos_teste_ultimo, _ultimo_resultado, leitores>>
    /\ UNCHANGED foraJanela

\* messagebox.showerror("Erro serial", msg), run by the main loop
CbErro ==
    /\ UNCHANGED gestos
    /\ fila # <<>>
    /\ Head(fila).cb = "erro"
    /\ fila' = Tail(fila)
    /\ UNCHANGED <<botoes, pontos_teste_ultimo, _ultimo_resultado, disco, leitores>>
    /\ UNCHANGED foraJanela

\* _alternar_modo
AlternarModo ==
    /\ Gesto
    /\ var_modo' = ~var_modo
    /\ UNCHANGED <<var_referencia, var_previa_comparacao, slider_tolerancia,
                   arquivo_stl_selecionado, pontos_teste_ultimo, _ultimo_resultado, disco,
                   leitores, fila>>
    /\ UNCHANGED foraJanela

\* the widgets that only set a variable: the tolerance slider, the
\* save-as-reference box, the radio buttons of the real mode
Ajustar ==
    /\ Gesto
    /\ \/ /\ slider_tolerancia' \in Tolerancias \ {slider_tolerancia}
          /\ UNCHANGED <<var_referencia, var_previa_comparacao>>
       \/ /\ var_referencia' = ~var_referencia
          /\ UNCHANGED <<slider_tolerancia, var_previa_comparacao>>
       \/ /\ ~var_modo
          /\ var_previa_comparacao' \in {"Pré-Visualização", "Comparação"} \ {var_previa_comparacao}
          /\ UNCHANGED <<slider_tolerancia, var_referencia>>
    /\ UNCHANGED <<var_modo, arquivo_stl_selecionado, pontos_teste_ultimo, _ultimo_resultado,
                   disco, leitores, fila>>
    /\ UNCHANGED foraJanela

\* _selecionar_stl and _limpar_stl
SelecionarStl ==
    /\ Gesto
    /\ arquivo_stl_selecionado' \in Caminhos \ {arquivo_stl_selecionado}
    /\ UNCHANGED <<var_modo, var_referencia, var_previa_comparacao, slider_tolerancia,
                   pontos_teste_ultimo, _ultimo_resultado, disco, leitores, fila>>
    /\ UNCHANGED foraJanela

\* _exportar_stl_teste: the mesh of the last test cloud goes to the chosen path
ExportarStl ==
    /\ Gesto
    /\ \E caminho \in Caminhos :
          IF SemPontos(pontos_teste_ultimo) \/ caminho = "" \/ PoucosPontos(pontos_teste_ultimo)
          THEN UNCHANGED disco
          ELSE \/ UNCHANGED disco
               \/ LET sx == CHOOSE x \in Simplices(Tamanho(pontos_teste_ultimo)) : TRUE
                  IN  disco' = [disco EXCEPT
                                  !.stl = Arquivo(Vectors(pontos_teste_ultimo.dados, sx))]
    /\ UNCHANGED <<botoes, pontos_teste_ultimo, _ultimo_resultado, leitores, fila>>
    /\ UNCHANGED foraJanela

---------------------------------------------------------------------------

Next ==
    \/ CallIcp
    \/ Repetir
    \/ CallVerify
    \/ IcpInit
    \/ IcpPass
    \/ IcpElse
    \/ IcpReturn
    \/ VerifyValidate
    \/ VerifyAlign
    \/ VerifySkipAlign
    \/ VerifyCompare
    \/ CallGerarCasca
    \/ GerarCasca
    \/ CallAplicarDefeito
    \/ AplicarDefeitoCorpo
    \/ CallGerarSimulados
    \/ SimuladosGerar
    \/ SimuladosDefeito

Spec == Init /\ [][Next]_vars

\* the file operations of logica.py, one call after another
FileNext ==
    \/ ImportarLogica
    \/ CallSalvarXyz
    \/ SalvarXyz
    \/ CallCarregarXyz
    \/ CarregarLoadtxt
    \/ CarregarReshape
    \/ CallCarregarStl
    \/ CarregarStlLer
    \/ CarregarStlAmostrar
    \/ CallExportar
    \/ ExportarChecar
    \/ ExportarTriangular
    \/ ExportarFiltrar
    \/ ExportarSalvar

FileSpec == Init /\ [][FileNext]_vars

\* one acquisition: the caller starts the worker, the worker runs
SerialNext ==
    \/ ImportarSerial
    \/ CallLerDados
    \/ TarefaInicio
    \/ TarefaAbrir
    \/ TarefaLer
    \/ TarefaLerFalha
    \/ TarefaEntregar

SerialSpec == Init /\ [][SerialNext]_vars

\* the window: the user works the widgets, the workers and the main loop run
JanelaNext ==
    \/ ExecutarReferencia
    \/ ExecutarSimulado
    \/ ExecutarReal
    \/ LeitorFim
    \/ LeitorFalha
    \/ CbPreviaReal
    \/ CbComparar
    \/ CbSalvarReferencia
    \/ CbErro
    \/ AlternarModo
    \/ Ajustar
    \/ SelecionarStl
    \/ ExportarStl

\* the window opens on the files an earlier session left behind
JanelaInit ==
    /\ Construido
    /\ \E ref \in {NoFile, Arquivo(Savetxt(Matriz(NuvemUm)))} :
          disco = [NoDisk EXCEPT !.xyz = ref]

JanelaSpec == JanelaInit /\ [][JanelaNext]_vars

---------------------------------------------------------------------------
(* Properties of verificar_defeito *)

\* a call of verificar_defeito has come back with its dict
VerifyReturned == fn = "verify" /\ pc = "returned"

\* C1: verificar_defeito raises ValueError whenever the reference cloud is
\* empty, the test cloud is empty or tol_mm <= 0, and it has then entered icp
\* no time, built no KD-tree and run no query.
C1_RejectsBeforeWork ==
    (/\ fn = "verify"
     /\ pc # "v_validar"
     /\ (Len(pontos_ref) = 0 \/ Len(pontos_teste) = 0 \/ FLe(tol_mm, F(0))))
        => /\ pc = "raised"
           /\ raised = "ValueError"
           /\ obs.icp_calls = 0
           /\ obs.trees = 0
           /\ obs.queries = 0

\* two non-empty clouds, alignment asked for, rejected for a tolerance of 0
C1_Witness ==
    /\ fn = "verify"
    /\ pc = "raised"
    /\ raised = "ValueError"
    /\ Len(pontos_ref) > 0
    /\ Len(pontos_teste) > 0
    /\ tol_mm = F(0)
    /\ usar_icp

\* d is the distance from p to the nearest point of the cloud data
IsNearestDist(d, p, data) ==
    /\ FLe(F(0), d)
    /\ \E k \in 1..Len(data) : FMul(d, d) = Dist2(p, data[k])
    /\ \A k \in 1..Len(data) : FLe(FMul(d, d), Dist2(p, data[k]))

\* labels and dists belong, index by index, to the points of cloud measured
\* against the cloud other: a point is "red" iff its distance is above tol_mm
LabelsAgree(labels, dists, cloud, other) ==
    /\ Len(labels) = Len(cloud)
    /\ Len(dists) = Len(cloud)
    /\ \A j \in 1..Len(cloud) :
          /\ IsNearestDist(dists[j], cloud[j], other)
          /\ labels[j] \in {"red", "blue"}
          /\ labels[j] = "red" <=> FGt(dists[j], tol_mm)

\* C2: in the dict, a test point and a reference point is "red" iff its
\* nearest-neighbour distance is strictly above tol_mm (equal is "blue"), and
\* label j and distance j are those of point j.
C2_LabelsFollowDistances ==
    VerifyReturned =>
        /\ LabelsAgree(resultado.cores_teste, resultado.dist_teste, pontos_teste, pontos_ref)
        /\ LabelsAgree(resultado.cores_ref, resultado.dist_ref, pontos_ref, pontos_teste)

\* a test cloud with one point exactly at the tolerance ("blue") and one
\* beyond it ("red")
C2_Witness ==
    /\ VerifyReturned
    /\ \E j, k \in 1..Len(resultado.dist_teste) :
          /\ resultado.dist_teste[j] = tol_mm
          /\ resultado.cores_teste[j] = "blue"
          /\ resultado.cores_teste[k] = "red"

\* C3: n_defeitos is the number of test distances above tol_mm plus the number
\* of reference distances above tol_mm, pct_defeito is 100 * n_defeitos over
\* the number of test points plus reference points, and aprovada holds iff
\* n_defeitos = 0.
C3_Aggregates ==
    VerifyReturned =>
        LET r == resultado
            above(d) == Cardinality({j \in 1..Len(d) : FGt(d[j], tol_mm)})
            total == Len(pontos_teste) + Len(pontos_ref)
        IN  /\ r.n_defeitos = above(r.dist_teste) + above(r.dist_ref)
            /\ r.pct_defeito.d > 0
            /\ r.pct_defeito.n * total = 100 * r.n_defeitos * r.pct_defeito.d
            /\ r.aprovada <=> r.n_defeitos = 0

\* defects in both directions, some points but not all of them out of
\* tolerance
C3_Witness ==
    /\ VerifyReturned
    /\ \E j \in 1..Len(resultado.dist_teste) : resultado.cores_teste[j] = "red"
    /\ \E j \in 1..Len(resultado.dist_ref) : resultado.cores_ref[j] = "red"
    /\ resultado.n_defeitos < Len(pontos_teste) + Len(pontos_ref)
    /\ ~resultado.aprovada

\* every point of the test cloud is a point of the reference cloud, and the
\* reference point k is farther than tol_mm from every test point
RemovedBeyondTol(k) ==
    /\ \A j \in 1..Len(pontos_teste) : \E m \in 1..Len(pontos_ref) :
          pontos_teste[j] = pontos_ref[m]
    /\ \A j \in 1..Len(pontos_teste) :
          FGt(Dist2(pontos_ref[k], pontos_teste[j]), FMul(tol_mm, tol_mm))

\* C4: without alignment, when the test cloud is the reference cloud with
\* points removed and a removed point is farther than tol_mm from every test
\* point, n_defeitos > 0 and aprovada is false although every test-to-reference
\* distance is 0.
C4_RemovedMaterial ==
    (/\ VerifyReturned
     /\ ~usar_icp
     /\ \E k \in 1..Len(pontos_ref) : RemovedBeyondTol(k))
        => /\ resultado.n_defeitos > 0
           /\ ~resultado.aprovada
           /\ \A j \in 1..Len(resultado.dist_teste) : resultado.dist_teste[j] = F(0)

\* the reference with one of its points removed, the removed point beyond the
\* tolerance
C4_Witness ==
    /\ VerifyReturned
    /\ ~usar_icp
    /\ Len(pontos_teste) < Len(pontos_ref)
    /\ \E k \in 1..Len(pontos_ref) : RemovedBeyondTol(k)

\* C5: verificar_defeito(ref, ref, tol, usar_icp=False) with a non-empty ref
\* and tol > 0 gives n_defeitos = 0, pct_defeito = 0 and aprovada.
C5_SelfComparison ==
    (VerifyReturned /\ ~usar_icp /\ pontos_teste = pontos_ref)
        => /\ resultado.n_defeitos = 0
           /\ resultado.pct_defeito = F(0)
           /\ resultado.aprovada

\* a cloud of several points compared with itself at the smallest tolerance
C5_Witness ==
    /\ VerifyReturned
    /\ ~usar_icp
    /\ pontos_teste = pontos_ref
    /\ Len(pontos_ref) > 1
    /\ tol_mm = F(1)

\* dists holds, index by index, the nearest-neighbour distances of the points
\* of cloud to the cloud other
DistsOf(dists, cloud, other) ==
    /\ Len(dists) = Len(cloud)
    /\ \A j \in 1..Len(cloud) : IsNearestDist(dists[j], cloud[j], other)

\* while icp runs for verificar_defeito its source is the test cloud and its
\* target the reference; the dict is measured on what icp returned, or, with
\* usar_icp off, with icp never entered and a residual of 0
C6_State ==
    /\ (fn = "verify" /\ pc \in {"icp_init", "icp_loop", "icp_return"})
          => /\ usar_icp
             /\ obs.icp_calls = 1
             /\ origem = pontos_teste
             /\ alvo = pontos_ref
    /\ VerifyReturned =>
          IF usar_icp
          THEN /\ obs.icp_calls = 1
               /\ retorno # NoReturn
               /\ DistsOf(resultado.dist_teste, retorno.origem_alinhada, pontos_ref)
               /\ DistsOf(resultado.dist_ref, pontos_ref, retorno.origem_alinhada)
               /\ resultado.erro_icp = retorno.erro
          ELSE /\ obs.icp_calls = 0
               /\ retorno = NoReturn
               /\ T_acum = NoMatrix
               /\ DistsOf(resultado.dist_teste, pontos_teste, pontos_ref)
               /\ DistsOf(resultado.dist_ref, pontos_ref, pontos_teste)
               /\ resultado.erro_icp = F(0)

\* inside verificar_defeito the test cloud changes only when icp returns, and
\* never with usar_icp off
C6_Step ==
    (fn = "verify" /\ pontos_teste' # pontos_teste)
        => /\ usar_icp
           /\ pc = "icp_return"
           /\ pontos_teste' = retorno'.origem_alinhada

\* C6: with usar_icp, icp runs with the test cloud as source and the reference
\* as target, both distance arrays are measured on the aligned test cloud and
\* erro_icp is the error icp returned; without usar_icp, icp is never entered,
\* the distances are measured on the test cloud as given and erro_icp is 0.
C6_Alignment == [](C6_State) /\ [][C6_Step]_vars

\* an alignment that moved the test cloud and left a residual
C6_Witness ==
    /\ VerifyReturned
    /\ usar_icp
    /\ pontos_teste # origem
    /\ resultado.erro_icp # F(0)

---------------------------------------------------------------------------
(* Properties of icp *)

\* icp is past its defaults, called with two non-empty clouds and a limit of
\* at least one pass
C7_Case ==
    /\ pc \in {"icp_loop", "icp_return"} \/ (fn = "icp" /\ pc \in {"returned", "raised"})
    /\ Len(origem) > 0
    /\ Len(alvo) > 0
    /\ max_iter >= 1

\* such a call raises nothing, runs at most max_iter queries and returns the
\* triple (src, T_acum, erro)
C7_Safe ==
    C7_Case =>
        /\ raised = "none"
        /\ pc # "raised"
        /\ obs.queries <= max_iter
        /\ i <= max_iter
        /\ (fn = "icp" /\ pc = "returned") =>
              /\ retorno = [origem_alinhada |-> src, T |-> T_acum, erro |-> erro]
              /\ Len(src) = Len(origem)
              /\ T_acum # NoMatrix
              /\ erro # Unbound

\* a pass of such a call can always be made: the query has an answer, and
\* where the pass goes on to the estimate, so has the decomposition
C7_Progress ==
    (C7_Case /\ pc = "icp_loop" /\ InRange(i, max_iter))
        => /\ QueryIdx(alvo, src) # {}
           /\ \A idx \in QueryIdx(alvo, src) :
                 /\ \A j \in 1..Len(idx) : idx[j] \in 1..Len(alvo)
                 /\ Svd(CrossCov(src, Take(alvo, idx))) # {}

\* a step that stays in the loop is one more pass of range(max_iter)
C7_Variant == (pc = "icp_loop" /\ pc' = "icp_loop") => i' = i + 1

\* C7: icp called with non-empty source and target and max_iter >= 1 makes at
\* most max_iter correspondence steps and then returns (src, T_acum, erro)
\* without raising, whether or not the convergence test was ever satisfied:
\* every step in the loop counts one pass up to max_iter, a pass can always be
\* made, the call never raises, and what it returns is the triple.
C7_BoundedAndReturns == [](C7_Safe /\ C7_Progress) /\ [][C7_Variant]_vars

\* a call that used up all its passes without converging and returned
C7_Witness ==
    /\ fn = "icp"
    /\ pc = "returned"
    /\ C7_Case
    /\ obs.warned
    /\ ~obs.converged
    /\ obs.queries = max_iter

\* C8: when icp uses up max_iter without satisfying the convergence test, what
\* it returns tells the caller so: two returns of icp that carry the same
\* triple are both of converged runs or both of runs that did not converge.
C8_ResultTellsConvergence ==
    (/\ fn = "icp"
     /\ pc = "returned"
     /\ anterior # NoPrev
     /\ retorno = anterior.retorno)
        => obs.converged = anterior.converged

\* C9: icp called with an empty source or an empty target fails before any
\* correspondence search: it runs no query and does not return.
C9_EmptyCloudRejected ==
    (fn = "icp" /\ (Len(origem) = 0 \/ Len(alvo) = 0))
        => /\ obs.queries = 0
           /\ pc # "returned"

\* three points of X are not on one line
NonDegenerate(X) ==
    \E a, b, c \in 1..Len(X) :
        LET u == VSub(X[b], X[a])
            v == VSub(X[c], X[a])
            cross == <<FSub(FMul(u[2], v[3]), FMul(u[3], v[2])),
                       FSub(FMul(u[3], v[1]), FMul(u[1], v[3])),
                       FSub(FMul(u[1], v[2]), FMul(u[2], v[1]))>>
        IN  cross # <<F(0), F(0), F(0)>>

\* C10: for a cloud X whose points are not all on one line, icp(X, X) with the
\* default limit (any limit of two passes or more) leaves the loop by the
\* convergence test, returns the error 0, the identity as T_acum and X as the
\* aligned cloud; verificar_defeito(X, X, tol, usar_icp=True) then gives
\* n_defeitos = 0, aprovada and erro_icp = 0.  Arithmetic is exact.
C10_SelfAlignment ==
    /\ (/\ fn = "icp"
        /\ pc = "returned"
        /\ origem = alvo
        /\ NonDegenerate(origem)
        /\ max_iter >= 2)
          => /\ obs.converged
             /\ ~obs.warned
             /\ retorno.erro = F(0)
             /\ retorno.T = Eye4
             /\ retorno.origem_alinhada = origem
    /\ (/\ VerifyReturned
        /\ usar_icp
        /\ origem = pontos_ref
        /\ NonDegenerate(pontos_ref))
          => /\ obs.converged
             /\ retorno.T = Eye4
             /\ pontos_teste = pontos_ref
             /\ resultado.n_defeitos = 0
             /\ resultado.aprovada
             /\ resultado.erro_icp = F(0)

\* a rectangle aligned with itself inside verificar_defeito and approved
C10_Witness ==
    /\ VerifyReturned
    /\ usar_icp
    /\ origem = pontos_ref
    /\ NonDegenerate(pontos_ref)
    /\ obs.transforms > 0
    /\ resultado.aprovada

---------------------------------------------------------------------------
(* Properties of the icp loop and of the verdict *)

IcpReturned == fn = "icp" /\ pc = "returned"

\* the test of the pass that has just run, on the values the pass compared
C23_Teste == FLt(FAbs(FSub(erro_anterior, erro')), tol)

C23_Step ==
    (pc = "icp_loop" /\ i' = i + 1 /\ pc' # "raised") =>
        /\ C23_Teste =>
              /\ pc' = "icp_return"
              /\ UNCHANGED <<src, T_acum, erro_anterior>>
              /\ obs'.transforms = obs.transforms
              /\ obs'.converged
        /\ ~C23_Teste =>
              /\ pc' = "icp_loop"
              /\ obs'.transforms = obs.transforms + 1
              /\ erro_anterior' = erro'
        /\ i = 0 => erro_anterior = Inf /\ ~C23_Teste

C23_State ==
    /\ obs.converged => obs.queries >= 2 /\ obs.transforms >= 1
    /\ (retorno # NoReturn /\ max_iter >= 1 /\ IsFinite(retorno.erro)) =>
           obs.transforms >= 1

AplicarHomogenea(T, s) ==
    LET Linha(r, p) == FAdd(FAdd(FMul(T[r][1], p[1]), FMul(T[r][2], p[2])),
                            FAdd(FMul(T[r][3], p[3]), T[r][4]))
    IN  Arr([j \in 1..Len(s) |-> <<Linha(1, s[j]), Linha(2, s[j]), Linha(3, s[j])>>])

\* C24: after every iteration and at return, the accumulated 4x4 transform
\* applied to the original source gives exactly the current (returned)
\* aligned source.
C24_AccumulatedMapsSource ==
    /\ pc \in {"icp_loop", "icp_return"} => src = AplicarHomogenea(T_acum, origem)
    /\ retorno # NoReturn =>
           retorno.origem_alinhada = AplicarHomogenea(retorno.T, origem)

C24_Witness ==
    /\ IcpReturned
    /\ obs.transforms >= 1
    /\ retorno.T # Eye4
    /\ retorno.origem_alinhada # origem
    /\ retorno.origem_alinhada = AplicarHomogenea(retorno.T, origem)

\* determinant of the rotation part of a 4x4 matrix
FDet3(M) ==
    LET m(r, c) == M[r][c]
        Menor(a, b, c, d) == FSub(FMul(a, d), FMul(b, c))
    IN  FAdd(FSub(FMul(m(1, 1), Menor(m(2, 2), m(2, 3), m(3, 2), m(3, 3))),
                  FMul(m(1, 2), Menor(m(2, 1), m(2, 3), m(3, 1), m(3, 3)))),
             FMul(m(1, 3), Menor(m(2, 1), m(2, 2), m(3, 1), m(3, 2))))

\* the decompositions the next pass can obtain in the current state
C25_Decomposicoes ==
    IF pc = "icp_loop" /\ InRange(i, max_iter) /\ Len(alvo) > 0
    THEN UNION {Svd(CrossCov(src, Take(alvo, idx))) : idx \in QueryIdx(alvo, src)}
    ELSE {}

\* C25: every per-iteration rotation is proper: whatever the sign of
\* det(V Ut), R = V diag(1, 1, det) Ut has determinant +1, and so has the
\* rotation part of the accumulated transform.
C25_ProperRotation ==
    /\ \A sv \in C25_Decomposicoes :
           /\ DetVU(sv) \in {1, -1}
           /\ IDet3(Rotation(sv)) = 1
    /\ T_acum # NoMatrix => FDet3(T_acum) = F(1)

C25_Witness ==
    /\ obs.transforms >= 1
    /\ T_acum # Eye4
    /\ \E sv \in C25_Decomposicoes : DetVU(sv) = -1

\* C26: in every run, converged or exhausted, the returned final_error is the
\* mean nearest-neighbour distance from the returned aligned source to the
\* target.
C26_ErrorDescribesResult ==
    IcpReturned =>
        retorno.erro = FMean(QueryDist(alvo, retorno.origem_alinhada))

\* C27: icp with max_iter = 0 makes no correspondence step, assigns no
\* residual and fails at its return; a result triple exists only when at
\* least one pass ran.
C27_ZeroPassesFails ==
    /\ (max_iter = 0 /\ pc # "icp_init") =>
           /\ obs.queries = 0
           /\ obs.transforms = 0
           /\ erro = Unbound
           /\ retorno = NoReturn
           /\ pc # "returned"
           /\ pc = "raised" => raised = "UnboundLocalError"
    /\ retorno # NoReturn => obs.queries >= 1 /\ i >= 1 /\ retorno.erro # Unbound

C27_Witness ==
    /\ fn = "icp"
    /\ max_iter = 0
    /\ pc = "raised"
    /\ raised = "UnboundLocalError"
    /\ Len(origem) > 0
    /\ Len(alvo) > 0

\* C28: aprovada is true exactly when dist_max <= tol_mm, and n_defeitos > 0
\* exactly when dist_max > tol_mm.
C28_VerdictFollowsMaximum ==
    VerifyReturned =>
        /\ resultado.aprovada <=> FLe(resultado.dist_max, tol_mm)
        /\ resultado.n_defeitos > 0 <=> FGt(resultado.dist_max, tol_mm)

C28_Witness ==
    /\ VerifyReturned
    /\ ~resultado.aprovada
    /\ resultado.n_defeitos > 0
    /\ FGt(resultado.dist_max, tol_mm)
    /\ \E j \in 1..Len(resultado.dist_teste) : FLe(resultado.dist_teste[j], tol_mm)

---------------------------------------------------------------------------
(* Properties of the generator and the defects *)

\* C11: gerar_casca_3d raises ValueError and returns no cloud whenever
\* n_pontos <= 0, raio <= 0 or altura <= 0, for the cylinder and the sphere.
C11_RejectsNonPositive ==
    (/\ fn = "gerar_casca_3d"
     /\ pc # "g_corpo"
     /\ (args.n_pontos <= 0 \/ args.raio <= 0 \/ args.altura <= 0))
        => /\ pc = "raised"
           /\ raised = "ValueError"
           /\ saida = 0

\* inside a call no array that exists is written or dropped; icp leaves origem
\* and alvo as they came; verificar_defeito leaves pontos_ref as it came and
\* rebinds pontos_teste only while origem still holds the caller's test cloud
C12_Step ==
    /\ (pc # "idle" /\ Len(heap) >= 1)
          => /\ Len(heap') >= Len(heap)
             /\ \A k \in 1..Len(heap) : (k = 1 \/ k # pontos) => heap'[k] = heap[k]
    /\ pc \in {"icp_init", "icp_loop", "icp_return"} => UNCHANGED <<origem, alvo>>
    /\ (fn = "verify" /\ pc # "idle")
          => /\ pontos_ref' = pontos_ref
             /\ pontos_teste' # pontos_teste => origem' = pontos_teste

\* C12: _aplicar_defeito (for every defect), icp and verificar_defeito leave the
\* arrays the caller passed with the coordinates they had; the update of each
\* icp pass goes to src, never to origem.
C12_InputsNotMutated == [][C12_Step]_vars

\* a dented copy was returned while the caller's array kept its heights
C12_Witness ==
    /\ fn = "_aplicar_defeito"
    /\ pc = "returned"
    /\ args.tipo_defeito = "amassado"
    /\ saida # 1
    /\ heap[saida] # heap[1]

\* C13: _aplicar_defeito(pontos, "nenhum") returns the points it was given, all
\* of them and no other, called directly or by gerar_pontos_simulados.
C13_NoDefectIsIdentity ==
    (/\ fn \in {"_aplicar_defeito", "gerar_pontos_simulados"}
     /\ pc = "returned"
     /\ args.tipo_defeito = "nenhum")
        => /\ heap[saida] = heap[1]
           /\ fn = "gerar_pontos_simulados" => Len(heap[saida]) = N_PONTOS_SIMULACAO

\* a cloud of several points that went through the defect "nenhum"
C13_Witness ==
    /\ fn = "_aplicar_defeito"
    /\ pc = "returned"
    /\ args.tipo_defeito = "nenhum"
    /\ Len(heap[saida]) > 1

\* C14: "falta de tampa" removes exactly the points whose z is above the median
\* z of the input and keeps every other point, those at the median included.
C14_MissingCapKeepsMedian ==
    (/\ fn = "_aplicar_defeito"
     /\ pc = "returned"
     /\ args.tipo_defeito = "falta de tampa")
        => LET entrada == heap[1]
               z_med == Median(Arr([j \in 1..Len(entrada) |-> entrada[j][3]]))
           IN  heap[saida] = SelectSeq(entrada, LAMBDA q : FLe(q[3], z_med))

---------------------------------------------------------------------------
(* Properties of the file operations *)

\* C15: a cloud of N >= 1 points (finite coordinates) saved by salvar_xyz and
\* read by carregar_xyz comes back as an (N,3) array, the points in the order
\* they were saved, each coordinate within 1e-6 of the saved one; one point
\* comes back as one row of three, not as a vector of three; and the read of a
\* file that was saved does not fail.
C15_RoundTrip ==
    fn = "carregar_xyz" =>
       /\ disco.xyz.existe => pc # "raised"
       /\ (pc = "returned" /\ Len(gravado) >= 1) =>
             /\ arq.saida.ndim = 2
             /\ Len(arq.saida.dados) = Len(gravado)
             /\ \A k \in 1..Len(gravado) :
                   /\ Len(arq.saida.dados[k]) = 3
                   /\ \A c \in 1..3 :
                         FLe(FAbs(FSub(arq.saida.dados[k][c], gravado[k][c])),
                             Flt(1, 1000000))

\* one point was saved and read back as one row, its coordinates rounded
C15_Witness ==
    /\ fn = "carregar_xyz"
    /\ pc = "returned"
    /\ Len(gravado) = 1
    /\ arq.saida.ndim = 2
    /\ arq.saida.dados[1] # gravado[1]

C17_InsufficientPoints ==
    (fn \in ExportFns /\ pc # "e_checar" /\ (arq.pontos.ndim = 0 \/ Tamanho(arq.pontos) < 4))
       => /\ pc = "raised"
          /\ raised = "ValueError"
          /\ ~arq.triangulou
          /\ disco.stl = arq.previo

\* C17 (amended): given None or fewer than 4 points both exports fail before
\* any triangulation and leave the file as it was; the failure is ValueError
\* when numpy-stl is installed and ImportError when it is not.
C17_InsufficientPointsWhenAvailable ==
    (fn \in ExportFns /\ pc # "e_checar" /\ (arq.pontos.ndim = 0 \/ Tamanho(arq.pontos) < 4))
       => /\ pc = "raised"
          /\ raised = (IF STL_DISPONIVEL = "True" THEN "ValueError" ELSE "ImportError")
          /\ ~arq.triangulou
          /\ disco.stl = arq.previo

\* three points were refused with numpy-stl installed and a file already there
C17_Witness ==
    /\ fn \in ExportFns
    /\ STL_DISPONIVEL = "True"
    /\ pc = "raised"
    /\ raised = "ValueError"
    /\ Tamanho(arq.pontos) = 3
    /\ arq.previo.existe

\* C18: the mesh exportar_stl_delaunay writes holds exactly the triangles of
\* the triangulation whose 3D area is above 1e-6, in order, each with area
\* above 1e-6 and at least one; when the triangulation has no such triangle
\* the call raises ValueError and the file is left as it was.
C18_DelaunayFilter ==
    fn = "exportar_stl_delaunay" =>
       LET p == arq.pontos.dados
           acima == SelectSeq(arq.tri, LAMBDA t : FGt(Area(p, t), Flt(1, 1000000)))
       IN  /\ pc = "returned" =>
                /\ Len(acima) >= 1
                /\ disco.stl = Arquivo(Vectors(p, acima))
                /\ \A k \in 1..Len(disco.stl.conteudo) :
                      FGt(Area(disco.stl.conteudo[k], <<0, 1, 2>>), Flt(1, 1000000))
           /\ (pc = "raised" /\ Len(arq.tri) >= 1) =>
                /\ raised = "ValueError"
                /\ Len(acima) = 0
                /\ disco.stl = arq.previo

\* a triangulation of which one triangle was dropped and another written
C18_Witness ==
    /\ fn = "exportar_stl_delaunay"
    /\ pc = "returned"
    /\ Len(arq.tris) = 1
    /\ Len(arq.tri) = 2
    /\ Len(disco.stl.conteudo) = 1

---------------------------------------------------------------------------
(* Properties of the acquisition *)

\* the points of the records of a sequence of lines that have four fields with
\* numeric distance, angle and height, in the order of the lines
PontosDe(linhas) ==
    LET validas == SelectSeq(linhas, LAMBDA l : Len(l) = 4 /\ \A k \in 2..4 : l[k] \in Numericos)
    IN  Arr([k \in 1..Len(validas) |-> Converter(validas[k])])

\* the read goes on while no end line has come and ends at the first one; the
\* cloud delivered is made of the valid records received before it
EndsRead(IsEnd(_)) ==
    /\ tarefa.pc = "lendo" => \A k \in 1..Len(recebidas) : ~IsEnd(recebidas[k])
    /\ tarefa.motivo = "FIM" =>
          /\ Len(recebidas) >= 1
          /\ IsEnd(recebidas[Len(recebidas)])
          /\ \A k \in 1..(Len(recebidas) - 1) : ~IsEnd(recebidas[k])
    /\ \A c \in 1..Len(chamadas) :
          chamadas[c].cb = "pontos" =>
             /\ tarefa.motivo = "FIM"
             /\ chamadas[c].arg = PontosDe(SubSeq(recebidas, 1, Len(recebidas) - 1))

\* C19: the read ends at the first received line that is exactly FIM and at no
\* other; the cloud delivered has one point per four-field record with numeric
\* distance, angle and height received before it, in arrival order, and
\* nothing else.
C19_EndsAtFIM == EndsRead(LAMBDA l : l = <<"FIM">>)

\* C19 (amended): the read ends at the first received line that is FIM in any
\* letter case (the line is compared after strip() and upper()) and at no
\* other, empty reads included; the cloud delivered has one point per
\* four-field record with numeric distance, angle and height received before
\* it, in arrival order, and nothing else.
C19_EndsAtFIMAnyCase == EndsRead(LAMBDA l : Len(l) = 1 /\ l[1] \in {"FIM", "fim"})

\* a record, a line that is no record and the end line came, and one point went out
C19_Witness ==
    /\ Len(recebidas) = 3
    /\ Len(chamadas) = 1
    /\ chamadas[1].cb = "pontos"
    /\ Len(chamadas[1].arg) = 1
    /\ recebidas[1] # LinhaVazia
    /\ recebidas[2] # LinhaVazia

\* C20: the worker invokes at most one callback in its life; once the read has
\* ended (FIM, no port, serial failure) it has invoked exactly one; the points
\* callback is invoked only after FIM.
C20_SingleCallback ==
    /\ Len(chamadas) <= 1
    /\ tarefa.pc \in {"fim", "morta"} => Len(chamadas) = 1
    /\ \A c \in 1..Len(chamadas) : chamadas[c].cb = "pontos" => tarefa.motivo = "FIM"

---------------------------------------------------------------------------
(* Properties of the window *)

\* the clouds the window is handed with a point or more
NuvensComPontos == {p \in NuvensGeradas \cup Capturas \cup CarregarStlSaidas : ~SemPontos(p)}

\* the main loop runs the callback cb that heads the queue
Despacha(cb) == fila # <<>> /\ Head(fila).cb = cb /\ fila' = Tail(fila)

\* a handler of the user ran with the reference box as marcado
Aperta(marcado) == gestos' = gestos + 1 /\ var_referencia = marcado

C21_Step ==
    /\ disco'.xyz # disco.xyz =>
          /\ \/ ExecutarReferencia
             \/ /\ CbSalvarReferencia
                /\ leitores[Head(fila).leitor].marcado
                /\ leitores[Head(fila).leitor].destino = "referencia"
          /\ \E p \in NuvensComPontos : disco'.xyz = Arquivo(Savetxt(p))
    /\ Aperta(FALSE) => disco'.xyz = disco.xyz
    /\ (Despacha("previa") \/ Despacha("comparar") \/ Despacha("erro")) =>
          disco'.xyz = disco.xyz
    /\ (fila # <<>> /\ fila' = Tail(fila) /\ Tamanho(Head(fila).pts) = 0) =>
          disco'.xyz = disco.xyz
    /\ leitores' # leitores => disco'.xyz = disco.xyz

\* C21: the reference file is written only as the result of an Execute made
\* with save-as-reference checked, always as a whole-file overwrite with a
\* cloud of at least one point; an Execute in inspection mode, a preview
\* capture, a mode switch, an export or an acquisition that captured no
\* point never creates or changes it.
C21_ReferenceWrittenOnlyBySave ==
    [](\A k \in 1..Len(leitores) :
          leitores[k].marcado <=> leitores[k].destino = "referencia")
        /\ [][C21_Step]_vars

C21_Witness ==
    /\ ~var_referencia
    /\ fila = <<>>
    /\ \E k \in 1..Len(leitores) :
          /\ leitores[k].destino = "referencia"
          /\ leitores[k].pc = "fim"
    /\ disco.xyz = Arquivo(Savetxt(Matriz(NuvemLinha)))

\* the acquisitions still reading that will read or write the reference
EmLeitura ==
    {k \in 1..Len(leitores) :
        leitores[k].pc = "lendo" /\ leitores[k].destino \in {"comparar", "referencia"}}

\* C22: while an acquisition started by Execute is still reading, a further
\* Execute starts no second worker: at most one acquisition that will read or
\* write the reference is in flight.
C22_OneAcquisitionInFlight == Cardinality(EmLeitura) <= 1

\* C29: whenever a last inspection result is retained, its per-point test
\* distances are one per point of pontos_teste_ultimo.
C29_DistancesBelongToLastCloud ==
    _ultimo_resultado # NoResult =>
        /\ pontos_teste_ultimo # NoArray
        /\ Len(_ultimo_resultado.dist_teste) = Tamanho(pontos_teste_ultimo)

\* the reference cloud and the tolerance as they were when Execute was pressed
C30_NoExecute(fecho) == <<Reshape(Loadtxt(fecho.disco_exec.conteudo)), F(fecho.slider_exec)>>

C30_Step ==
    /\ Despacha("comparar") =>
          LET ev == Head(fila)
              a == C30_NoExecute(ev.fecho)
          IN  /\ leitores[ev.leitor].pc = "fim"
              /\ leitores[ev.leitor].destino = "comparar"
              /\ IF Invalid(a[1].dados, ev.pts.dados, a[2])
                 THEN _ultimo_resultado' = _ultimo_resultado
                 ELSE _ultimo_resultado' \in VerificarDefeito(a[1].dados, ev.pts.dados, a[2])
    /\ leitores' # leitores => UNCHANGED <<_ultimo_resultado, pontos_teste_ultimo, comparado>>

====
